---- MODULE Spec2Model ----
(***************************************************************************)
(* MESH coordination engine (plugin/mesh): the Store (registry.js), the    *)
(* coordinator (index.js), the reputation client (reputation.js), the      *)
(* ranker/codec (router.js) and the TON payment verifier                   *)
(* (contract/wrappers/createTonPaymentVerifier.ts).                        *)
(*                                                                         *)
(* One set of variables, several specifications:                           *)
(*   Spec           the coordinator, one step per tool call, inbound       *)
(*                  message or scheduler tick                              *)
(*   SpecAccept     concurrent acceptIntentOffer calls on each backend     *)
(*   SpecRace       selections racing on one intent, await by await        *)
(*   SpecLifecycle  start(), stop() and the processed-message keys         *)
(*   SpecRep        the reputation client under every trust configuration  *)
(*   SpecVerify     the payment verifier, its inputs drawn by Init         *)
(*   SpecOffer      an offer from the budget to the Store                  *)
(*   SpecRank       a selection from the offers listed to the one picked   *)
(*   SpecCodec      a text parsed, serialized and parsed again             *)
(*   SpecSend       an outbound send, attempt by attempt                   *)
(*   SpecInbound    handleAccept beside selections and ticks               *)
(*   SpecSelection  the selections with a Transport that can fail          *)
(*   SpecTools      the sending tools, write by write and send by send     *)
(*   SpecIngest     an event delivered, handled and delivered again        *)
(*   SpecSched      the deadline scheduler over several pending intents    *)
(*   SpecArgs       the sending tools called with every kind of argument   *)
(***************************************************************************)
EXTENDS Integers, Sequences, FiniteSets, TLC

VARIABLES
    \* ---- createTonPaymentVerifier.ts
    vArgs,      \* VerifyTonPaymentArgs of the call
    vOpts,      \* TonPaymentVerifierOptions of the verifier
    vPc,        \* "start" | "scan" | "done"
    vIdx,       \* index of the for-loop over txs
    vLen,       \* txs.length, what client.getTransactions returned
    vTx,        \* the transaction whose hash matched (NoTx until one does)
    vRes,       \* the result returned: [ok, reason]
    \* ---- reputation.js
    rcfg,       \* the client's config and what the sdk offers (sdk.ton.*)
    scores,     \* sdk.__meshReputation.scores
    stakes,     \* sdk.__meshReputation.stakes
    stakeSince, \* sdk.__meshReputation.stakeSince
    txSeen,     \* sdk.__meshReputation.txSeen
    repLast,    \* the last reputation-client call and how it ended
    \* ---- registry.js
    backend,    \* the backend configured: memory, postgres or supabase-rest
    intents,    \* the intents table / store.intents
    offers,     \* the offers, in order of insertion
    deals,      \* the deals table / store.deals
    peers,      \* the peers table / store.peers: the reputation recorded
    processedMessages, \* store.processedMessages, the in-memory Set
    processedDb,       \* the processed_messages table of the database
    pgPool,     \* sdk.__meshPgPool: "unset", "open" or "null"
    \* ---- index.js
    now,        \* the clock, in seconds
    lastExpirySweepAt, \* sdk.__meshLastExpirySweepAt
    schedulerOn, \* sdk.__meshDeadlineScheduler is set
    lastThrown, \* what the last mesh_settle call that threw has thrown
    ticked,     \* the last thing the coordinator ran was a scheduler tick
    waitForDeadline, \* config.waitForDeadline !== false
    lastBeacon, \* what handleBeacon returned, when it was the last thing run
    firstAccepted, \* per intent, the acceptance first recorded
    lcLast,     \* the last markProcessedMessage call and its answer
    insertedTrue, \* per key, how often inserted:true was answered (up to 2)
    \* ---- operations in flight
    tasks,      \* per operation: where it stands and what it holds
    pgLock,     \* the task holding the row lock of the intent (0: none)
    \* ---- single calls followed from their inputs to their result
    quote,      \* an offer on an intent: budget, minFee, fee, what came of it
    ranking,    \* a selection: the offers listed and the one picked
    codec,      \* a text on the wire: what was parsed, what was serialized
    send,       \* an outbound send: its attempts and waits, how it ended
    sched       \* the deadline scheduler: the intents it lists, its last tick

verifyVars == <<vArgs, vOpts, vPc, vIdx, vLen, vTx, vRes>>
repVars == <<rcfg, scores, stakes, stakeSince, txSeen, repLast>>

storeVars == <<backend, intents, offers, deals, peers, processedMessages>>
coordVars == <<now, lastExpirySweepAt, lastThrown, ticked, waitForDeadline, lastBeacon,
               firstAccepted>>
raceVars == <<tasks, pgLock>>
lifeVars == <<pgPool, processedDb, insertedTrue, lcLast, schedulerOn>>
callVars == <<quote, ranking, codec, send, sched>>

vars == <<verifyVars, repVars, storeVars, coordVars, raceVars, lifeVars, callVars>>

\* what the steps of each part leave alone
notVerify == <<repVars, storeVars, coordVars, raceVars, lifeVars, callVars>>
notRep == <<verifyVars, storeVars, coordVars, raceVars, lifeVars, callVars>>
raceFrame == <<verifyVars, repVars, coordVars, lifeVars, callVars>>
lifeFrame == <<verifyVars, repVars, coordVars, raceVars, callVars, backend, intents, offers, deals, peers>>

\* an optional number: undefined, or a value
Undef == [def |-> FALSE, val |-> 0]
Num(n) == [def |-> TRUE, val |-> n]

(***************************************************************************)
(* createTonPaymentVerifier.ts                                             *)
(***************************************************************************)

\* bound: how many transactions client.getTransactions may return
MaxTxs == 2

\* padStart(64, '0')
HashHexLen == 64

\* Math.max(1, Number(options.defaultLookbackLimit ?? 30))
DefaultLookbackLimit == 30

HexChars == {"0", "1", "a", "b", "A", "B"}

ToLowerChar(c) == IF c = "A" THEN "a" ELSE IF c = "B" THEN "b" ELSE c

RECURSIVE PadStart(_, _)
PadStart(s, n) == IF Len(s) >= n THEN s ELSE PadStart(<<"0">> \o s, n)

\* value.replace(/^0x/i, '')
Strip0x(s) ==
    IF Len(s) >= 2 /\ s[1] = "0" /\ s[2] \in {"x", "X"}
    THEN SubSeq(s, 3, Len(s)) ELSE s

IsHex(s) == Len(s) >= 1 /\ Len(s) <= HashHexLen /\ \A i \in 1..Len(s) : s[i] \in HexChars

\* normalizeHashHex: the hex branch of normalizeTxHashToHex; the inputs drawn
\* below are all hex, so the base64 branch is never taken
normalizeHashHex(input) ==
    PadStart([i \in 1..Len(Strip0x(input)) |-> ToLowerChar(Strip0x(input)[i])], HashHexLen)

\* the hashes the scanned transactions carry (tx.hash().toString('hex'))
HashA == PadStart(<<"a">>, HashHexLen)
HashB == PadStart(<<"b">>, HashHexLen)
TxHashes == {HashA, HashB}

\* args.txHash as typed by the caller: "" (missing), or hex in various spellings
TxHashInputs == {<<>>, <<"a">>, <<"A">>, <<"0", "x", "a">>, <<"0", "0", "b">>}

\* addresses: "" is a missing one, "bad" one that Address.parse rejects
VAddrs == {"EQR", "EQS", "EQT"}

NoTx == [hash |-> <<>>, inMsg |-> "none", dest |-> "", src |-> "", coins |-> 0,
         now |-> 0, aborted |-> FALSE, computeVmFailed |-> FALSE]

Txs == [hash : TxHashes, inMsg : {"none", "external", "internal"},
        dest : {"EQR", "EQT"}, src : {"EQS", "EQT"}, coins : {1, 2, 3},
        now : {0, 5}, aborted : BOOLEAN, computeVmFailed : BOOLEAN]

\* options.nowSeconds()
VerifierNow == 10

VArgsSet == [txHash : TxHashInputs,
             amount : {Undef, Num(2)},
             expectedRecipient : {"", "bad", "EQR"},
             expectedSender : {"", "EQS"},
             maxTxAgeSeconds : {Undef, Num(0), Num(7)}]

VOptsSet == [defaultMaxTxAgeSeconds : {Undef, Num(7)},
             allowAmountGreaterOrEqual : BOOLEAN]

\* transactionNotAborted
transactionNotAborted(tx) ==
    IF tx.aborted THEN FALSE
    ELSE IF tx.computeVmFailed THEN FALSE
    ELSE TRUE

\* extractInternalInbound: null unless tx.inMessage exists and is internal
extractInternalInbound(tx) == tx.inMsg = "internal"

\* coinsMatch
coinsMatch(actual, expected, allowGte) ==
    IF allowGte THEN actual >= expected ELSE actual = expected

\* txAgeOk: a missing, zero or negative limit disables the check
txAgeOk(tx, maxAge, nowSec) ==
    IF ~maxAge.def \/ maxAge.val = 0 \/ maxAge.val <= 0 THEN TRUE
    ELSE (nowSec - tx.now) <= maxAge.val

\* const maxAge = Number.isFinite(Number(args.maxTxAgeSeconds)) ? ... : options.defaultMaxTxAgeSeconds
EffectiveMaxAge(args, opts) ==
    IF args.maxTxAgeSeconds.def THEN args.maxTxAgeSeconds ELSE opts.defaultMaxTxAgeSeconds

Fail(reason) == [ok |-> FALSE, reason |-> reason]
Okay == [ok |-> TRUE, reason |-> "none"]

\* the checks made on the transaction whose hash matched, in the order of the loop body
CheckMatchedTxSwapped(tx, args, opts) ==
    IF ~extractInternalInbound(tx) THEN Fail("tx_has_no_internal_inbound")
    ELSE IF args.expectedSender # "" /\ tx.src # args.expectedSender THEN Fail("sender_mismatch")
    ELSE IF tx.dest # args.expectedRecipient THEN Fail("recipient_mismatch")
    ELSE IF args.amount.def
            /\ ~coinsMatch(tx.coins, args.amount.val, opts.allowAmountGreaterOrEqual)
         THEN Fail("amount_mismatch")
    ELSE IF ~txAgeOk(tx, EffectiveMaxAge(args, opts), VerifierNow) THEN Fail("tx_too_old")
    ELSE IF ~transactionNotAborted(tx) THEN Fail("tx_failed")
    ELSE Okay

CheckMatchedTx(tx, args, opts) ==
    IF ~extractInternalInbound(tx) THEN Fail("tx_has_no_internal_inbound")
    ELSE IF tx.dest # args.expectedRecipient THEN Fail("recipient_mismatch")
    ELSE IF args.expectedSender # "" /\ tx.src # args.expectedSender THEN Fail("sender_mismatch")
    ELSE IF args.amount.def
            /\ ~coinsMatch(tx.coins, args.amount.val, opts.allowAmountGreaterOrEqual)
         THEN Fail("amount_mismatch")
    ELSE IF ~txAgeOk(tx, EffectiveMaxAge(args, opts), VerifierNow) THEN Fail("tx_too_old")
    ELSE IF ~transactionNotAborted(tx) THEN Fail("tx_failed")
    ELSE Okay

\* verifyTonPayment up to and including client.getTransactions
VerifyStart ==
    /\ vPc = "start"
    /\ \/ /\ vArgs.txHash = <<>>
          /\ vRes' = Fail("missing_tx_hash") /\ vPc' = "done" /\ vLen' = 0
       \/ /\ vArgs.txHash # <<>> /\ vArgs.expectedRecipient = ""
          /\ vRes' = Fail("missing_expected_recipient") /\ vPc' = "done" /\ vLen' = 0
       \/ /\ vArgs.txHash # <<>> /\ vArgs.expectedRecipient # ""
          /\ (vArgs.expectedRecipient = "bad" \/ ~IsHex(Strip0x(vArgs.txHash)))
          /\ vRes' = Fail("invalid_verify_params") /\ vPc' = "done" /\ vLen' = 0
       \/ /\ vArgs.txHash # <<>> /\ vArgs.expectedRecipient \in VAddrs
          /\ IsHex(Strip0x(vArgs.txHash))
          /\ \/ \* getTransactions throws
                vRes' = Fail("tx_lookup_failed") /\ vPc' = "done" /\ vLen' = 0
             \/ \E n \in 0..MaxTxs :
                    /\ n <= DefaultLookbackLimit
                    /\ vLen' = n /\ vPc' = "scan" /\ vRes' = vRes
    /\ UNCHANGED <<vArgs, vOpts, vIdx, vTx>>
    /\ UNCHANGED notVerify

\* one iteration of `for (const tx of txs)`; the transaction read is whatever
\* the recipient's history holds at that position
VerifyScan ==
    /\ vPc = "scan"
    /\ vIdx < vLen
    /\ \E tx \in Txs :
         IF tx.hash # normalizeHashHex(vArgs.txHash)
         THEN /\ vIdx' = vIdx + 1
              /\ UNCHANGED <<vTx, vRes, vPc>>
         ELSE /\ vTx' = tx
              /\ vRes' = CheckMatchedTx(tx, vArgs, vOpts)
              /\ vPc' = "done"
              /\ vIdx' = vIdx
    /\ UNCHANGED <<vArgs, vOpts, vLen>>
    /\ UNCHANGED notVerify

\* the loop ended without a match
VerifyNotFound ==
    /\ vPc = "scan"
    /\ vIdx = vLen
    /\ vRes' = Fail("tx_not_found_in_recent_recipient_history")
    /\ vPc' = "done"
    /\ UNCHANGED <<vArgs, vOpts, vIdx, vLen, vTx>>
    /\ UNCHANGED notVerify

VerifyInit ==
    /\ vArgs \in VArgsSet
    /\ vOpts \in VOptsSet
    /\ vPc = "start"
    /\ vIdx = 0
    /\ vLen = 0
    /\ vTx = NoTx
    /\ vRes = Fail("pending")

(***************************************************************************)
(* reputation.js                                                           *)
(***************************************************************************)

RepAddrs == {"EQX", "EQY", "EQZ"}
RepTxHashes == {"t1", "t2"}

\* stakes are held in 1/100 TON: StakeOne is the `1` of `amount < 1`
StakeOne == 100

\* the addresses SpecRep's calls name
RepCallers == {"EQX"}

\* config.mode, config.strictChain, config.allowLocalReputationFallback, and
\* whether sdk.ton.meshReputation is installed
RepConfigs == [mode : {"testnet", "production"},
               strictChain : {"unset", "true", "false"},
               allowLocalReputationFallback : {"unset", "true", "false"},
               hostAdapter : BOOLEAN]

\* what sdk.ton.getRawClient answers at a call: nothing (absent, null or a
\* throw), a client that cannot reach the contract (no contractAddress, or no
\* sendInternalMessage / runMethod), or one that can
RawClients == {"none", "present", "wired"}

\* what sdk.ton.verifyPayment does at a call: not installed, or installed and
\* answering ok, answering not ok, or throwing
HostVerifiers == {"absent", "ok", "notok", "throws"}

\* isStrictChainMode
isStrictChainMode(config) ==
    IF config.strictChain # "unset" THEN config.strictChain = "true"
    ELSE config.mode \in {"production", "mainnet"}

\* allowLocalFallback
allowLocalFallback(config) ==
    IF config.allowLocalReputationFallback # "unset"
    THEN config.allowLocalReputationFallback = "true"
    ELSE ~isStrictChainMode(config)

\* reputationDeltaForRating
reputationDeltaForRating(rating) ==
    IF rating >= 9 THEN 15
    ELSE IF rating >= 7 THEN 8
    ELSE IF rating >= 5 THEN 2
    ELSE IF rating >= 3 THEN -10
    ELSE -25

\* slashPenalty: currentStake * 0.2
slashPenalty(currentStake) == (currentStake * 2) \div 10

Max2(a, b) == IF a >= b THEN a ELSE b

\* map.get(k) ?? d
GetOr(m, k, d) == IF m[k].def THEN m[k].val ELSE d

EmptyMap == [a \in RepAddrs |-> Undef]

\* the local simulation's state (ensureState)
RepState == [scores |-> scores, stakes |-> stakes, stakeSince |-> stakeSince, txSeen |-> txSeen]

RepOut(ok, err, via, st, value) ==
    [ok |-> ok, err |-> err, via |-> via, st |-> st, value |-> value]

\* requireRawClient throws: strictChain and no raw client
RawRequiredButMissing(config, raw) == isStrictChainMode(config) /\ raw = "none"

\* MeshReputationClient.registerAgent
registerAgent(config, raw, st, address, stake) ==
    IF stake < StakeOne THEN RepOut(FALSE, "min_stake", "none", st, 0)
    ELSE IF config.hostAdapter THEN RepOut(TRUE, "none", "host", st, 0)
    ELSE IF RawRequiredButMissing(config, raw) THEN RepOut(FALSE, "raw_client_unavailable", "none", st, 0)
    ELSE IF raw = "wired" /\ isStrictChainMode(config)
         THEN RepOut(FALSE, "on_chain_path_not_implemented", "none", st, 0)
    ELSE IF ~allowLocalFallback(config) THEN RepOut(FALSE, "local_fallback_disabled", "none", st, 0)
    ELSE RepOut(TRUE, "none", "local",
                [st EXCEPT !.scores[address] = IF st.scores[address].def THEN @ ELSE Num(100),
                           !.stakeSince[address] = IF st.scores[address].def THEN @ ELSE Num(now),
                           !.stakes[address] = Num(stake)],
                GetOr(st.scores, address, 100))

\* MeshReputationClient.getReputation; chainValue is what raw.runMethod
\* answers: a number, or Undef when it answers nothing finite or throws
getReputation(config, raw, st, address, chainValue) ==
    IF config.hostAdapter THEN RepOut(TRUE, "none", "host", st, chainValue.val)
    ELSE IF RawRequiredButMissing(config, raw) THEN RepOut(FALSE, "raw_client_unavailable", "none", st, 0)
    ELSE IF raw = "wired" /\ chainValue.def THEN RepOut(TRUE, "none", "raw", st, chainValue.val)
    ELSE IF ~allowLocalFallback(config) THEN RepOut(FALSE, "local_fallback_disabled", "none", st, 0)
    ELSE RepOut(TRUE, "none", "local", st, GetOr(st.scores, address, 0))

\* MeshReputationClient.getStakeInfo; value is the stake
getStakeInfo(config, raw, st, address, chainValue) ==
    IF config.hostAdapter THEN RepOut(TRUE, "none", "host", st, chainValue.val)
    ELSE IF RawRequiredButMissing(config, raw) THEN RepOut(FALSE, "raw_client_unavailable", "none", st, 0)
    ELSE IF raw = "wired" /\ chainValue.def THEN RepOut(TRUE, "none", "raw", st, chainValue.val)
    ELSE IF isStrictChainMode(config) THEN RepOut(FALSE, "on_chain_path_not_implemented", "none", st, 0)
    ELSE IF ~allowLocalFallback(config) THEN RepOut(FALSE, "local_fallback_disabled", "none", st, 0)
    ELSE RepOut(TRUE, "none", "local", st, GetOr(st.stakes, address, 0))

\* recordOutcome without `if (state.txSeen.has(txHash)) throw`
recordOutcomeNoReplayTest(config, st, executorAddress, txHash, rating) ==
    IF config.hostAdapter THEN RepOut(TRUE, "none", "host", st, 0)
    ELSE IF isStrictChainMode(config) THEN RepOut(FALSE, "on_chain_path_not_implemented", "none", st, 0)
    ELSE IF ~allowLocalFallback(config) THEN RepOut(FALSE, "local_fallback_disabled", "none", st, 0)
    ELSE RepOut(TRUE, "none", "local",
                [st EXCEPT !.txSeen = @ \cup {txHash},
                           !.scores[executorAddress] =
                               Num(Max2(0, GetOr(st.scores, executorAddress, 100)
                                           + reputationDeltaForRating(rating)))],
                Max2(0, GetOr(st.scores, executorAddress, 100) + reputationDeltaForRating(rating)))

\* MeshReputationClient.recordOutcome
recordOutcome(config, st, executorAddress, txHash, rating) ==
    IF config.hostAdapter THEN RepOut(TRUE, "none", "host", st, 0)
    ELSE IF isStrictChainMode(config) THEN RepOut(FALSE, "on_chain_path_not_implemented", "none", st, 0)
    ELSE IF ~allowLocalFallback(config) THEN RepOut(FALSE, "local_fallback_disabled", "none", st, 0)
    ELSE IF txHash \in st.txSeen THEN RepOut(FALSE, "replay", "local", st, 0)
    ELSE LET next == Max2(0, GetOr(st.scores, executorAddress, 100) + reputationDeltaForRating(rating))
         IN RepOut(TRUE, "none", "local",
                   [st EXCEPT !.txSeen = @ \cup {txHash}, !.scores[executorAddress] = Num(next)],
                   next)

\* MeshReputationClient.slash
slash(config, st, offenderAddress) ==
    IF config.hostAdapter THEN RepOut(TRUE, "none", "host", st, 0)
    ELSE IF isStrictChainMode(config) THEN RepOut(FALSE, "on_chain_path_not_implemented", "none", st, 0)
    ELSE IF ~allowLocalFallback(config) THEN RepOut(FALSE, "local_fallback_disabled", "none", st, 0)
    ELSE LET currentStake == GetOr(st.stakes, offenderAddress, 0)
             nextRep == Max2(0, GetOr(st.scores, offenderAddress, 100) - 50)
         IN RepOut(TRUE, "none", "local",
                   [st EXCEPT !.stakes[offenderAddress] = Num(Max2(0, currentStake - slashPenalty(currentStake))),
                              !.scores[offenderAddress] = Num(nextRep)],
                   nextRep)

\* MeshReputationClient.withdrawStake
withdrawStake(config, st, address) ==
    IF config.hostAdapter THEN RepOut(TRUE, "none", "host", st, 0)
    ELSE IF isStrictChainMode(config) THEN RepOut(FALSE, "on_chain_path_not_implemented", "none", st, 0)
    ELSE IF ~allowLocalFallback(config) THEN RepOut(FALSE, "local_fallback_disabled", "none", st, 0)
    ELSE RepOut(TRUE, "none", "local",
                [st EXCEPT !.stakes[address] = Undef, !.scores[address] = Undef,
                           !.stakeSince[address] = Undef],
                GetOr(st.stakes, address, 0))

\* MeshReputationClient.verifyPayment; host is what sdk.ton.verifyPayment does
verifyPayment(config, txHash, host) ==
    IF txHash = "" THEN [ok |-> FALSE, reason |-> "missing_tx_hash", via |-> "none"]
    ELSE IF host = "ok" THEN [ok |-> TRUE, reason |-> "none", via |-> "host"]
    ELSE IF host = "notok" THEN [ok |-> FALSE, reason |-> "none", via |-> "host"]
    ELSE IF host = "throws" /\ isStrictChainMode(config)
         THEN [ok |-> FALSE, reason |-> "ton_verify_payment_failed", via |-> "host"]
    ELSE IF ~allowLocalFallback(config)
         THEN [ok |-> FALSE, reason |-> "local_payment_fallback_disabled", via |-> "none"]
    ELSE [ok |-> TRUE, reason |-> "none", via |-> "local"]

\* ---- the client's operations as steps
RepApply(op, out) ==
    /\ scores' = out.st.scores
    /\ stakes' = out.st.stakes
    /\ stakeSince' = out.st.stakeSince
    /\ txSeen' = out.st.txSeen
    /\ repLast' = [op |-> op, ok |-> out.ok, via |-> out.via]
    /\ UNCHANGED rcfg
    /\ UNCHANGED notRep

RepRegister ==
    \E a \in RepCallers, raw \in RawClients, s \in {50, 100} :
        RepApply("registerAgent", registerAgent(rcfg, raw, RepState, a, s))

RepGetReputation ==
    \E a \in RepCallers, raw \in RawClients, cv \in {Undef, Num(70)} :
        RepApply("getReputation", getReputation(rcfg, raw, RepState, a, cv))

RepGetStakeInfo ==
    \E a \in RepCallers, raw \in RawClients, cv \in {Undef, Num(100)} :
        RepApply("getStakeInfo", getStakeInfo(rcfg, raw, RepState, a, cv))

\* the executors recordOutcome is called for, and the ratings: one of each
\* row of the delta table
RepExecutors == {"EQX", "EQY"}
RepRatings == {2, 4, 6, 8, 9}

RepRecordOutcome ==
    \E a \in RepExecutors, t \in RepTxHashes, r \in RepRatings :
        RepApply("recordOutcome", recordOutcome(rcfg, RepState, a, t, r))

\* 0.2 * stake is computed exactly for the stakes that are multiples of 5
RepSlash ==
    \E a \in RepCallers :
        /\ GetOr(stakes, a, 0) % 5 = 0
        /\ RepApply("slash", slash(rcfg, RepState, a))

RepWithdraw ==
    \E a \in RepCallers :
        RepApply("withdrawStake", withdrawStake(rcfg, RepState, a))

RepVerifyPayment ==
    \E t \in {"", "t1"}, host \in HostVerifiers :
        LET r == verifyPayment(rcfg, t, host)
        IN /\ repLast' = [op |-> "verifyPayment", ok |-> r.ok, via |-> r.via]
           /\ UNCHANGED <<rcfg, scores, stakes, stakeSince, txSeen>>
           /\ UNCHANGED notRep

NoRepCall == [op |-> "none", ok |-> FALSE, via |-> "none"]

\* the maps before any call, or as an earlier client on the same sdk left them
RepInitStates ==
    { [scores |-> EmptyMap, stakes |-> EmptyMap, stakeSince |-> EmptyMap, txSeen |-> {}],
      [scores |-> [EmptyMap EXCEPT !["EQX"] = Num(100)],
       stakes |-> [EmptyMap EXCEPT !["EQX"] = Num(StakeOne)],
       stakeSince |-> [EmptyMap EXCEPT !["EQX"] = Num(0)],
       txSeen |-> {}] }

RepInit ==
    /\ rcfg \in RepConfigs
    /\ \E st \in RepInitStates :
         /\ scores = st.scores /\ stakes = st.stakes
         /\ stakeSince = st.stakeSince /\ txSeen = st.txSeen
    /\ repLast = NoRepCall

\* the reputation client at rest, for the specifications that do not use it
RepIdle ==
    /\ rcfg = [mode |-> "testnet", strictChain |-> "unset",
               allowLocalReputationFallback |-> "unset", hostAdapter |-> FALSE]
    /\ scores = EmptyMap /\ stakes = EmptyMap /\ stakeSince = EmptyMap /\ txSeen = {}
    /\ repLast = NoRepCall

VerifyIdle ==
    /\ vArgs = [txHash |-> <<>>, amount |-> Undef, expectedRecipient |-> "",
                expectedSender |-> "", maxTxAgeSeconds |-> Undef]
    /\ vOpts = [defaultMaxTxAgeSeconds |-> Undef, allowAmountGreaterOrEqual |-> TRUE]
    /\ vPc = "done" /\ vIdx = 0 /\ vLen = 0 /\ vTx = NoTx /\ vRes = Fail("pending")

(***************************************************************************)
(* registry.js: the Store                                                  *)
(***************************************************************************)

\* the agent's own wallet address (getOwnAddress) and the other agents
Self == "EQX"
Addrs == {"EQX", "EQY", "EQZ"}
Others == Addrs \ {Self}

\* the processed-message keys followed (meta.key)
Keys == {"k1", "k2"}

NoMark == [key |-> "", inserted |-> FALSE]

\* one intent id is followed through the Store
IntentIds == {"i1"}

\* what can be configured: nothing, a database url, Supabase credentials
Backends == {"memory", "postgres", "supabase-rest"}

\* getPgPool: the pool the next Store call sees
getPgPool ==
    IF pgPool = "null" THEN "null"
    ELSE IF pgPool = "open" THEN "open"
    ELSE IF backend = "postgres" THEN "open"
    ELSE "null"

\* getBackendMode
getBackendMode ==
    IF backend = "supabase-rest" THEN "supabase-rest"
    ELSE IF getPgPool = "open" THEN "postgres"
    ELSE "memory"

\* recordOffer: id = `${intentId}:${fromAddress}:${createdAt}`
OfferId(intentId, fromAddress, createdAt) ==
    [intentId |-> intentId, fromAddress |-> fromAddress, createdAt |-> createdAt]

\* acceptedOfferId: null
NoOfferId == OfferId("", "", 0)

\* store.intents.get(id) when there is none
NoIntent == [status |-> "none", fromAddress |-> "", deadline |-> 0,
             acceptedOfferId |-> NoOfferId, selectedExecutor |-> ""]

NoOffer == [intentId |-> "", fromAddress |-> "", fee |-> 0, etaSeconds |-> 0,
            stakeAgeSeconds |-> 0, createdAt |-> 0]

NoDeal == [exists |-> FALSE, executorAddress |-> "", fee |-> Undef, txHash |-> "",
           outcome |-> ""]

OfferIdOf(offer) == OfferId(offer.intentId, offer.fromAddress, offer.createdAt)

\* saveIntent as the coordinator calls it: every field given but
\* acceptedOfferId and selectedExecutor, which `??` keeps from the existing row
saveIntent(its, id, fromAddress, deadline, status) ==
    [its EXCEPT ![id] = [status |-> status, fromAddress |-> fromAddress,
                         deadline |-> deadline,
                         acceptedOfferId |-> its[id].acceptedOfferId,
                         selectedExecutor |-> its[id].selectedExecutor]]

\* updateIntentStatus(id, status): null when the intent is unknown
updateIntentStatus(its, id, status) ==
    IF its[id].status = "none" THEN its
    ELSE [its EXCEPT ![id].status = status]

\* updateIntentStatus(id, 'accepted', {selectedExecutor})
updateIntentAccepted(its, id, executor) ==
    IF its[id].status = "none" THEN its
    ELSE [its EXCEPT ![id].status = "accepted", ![id].selectedExecutor = executor]

\* updateIntentStatus(id, 'accepted', {acceptedOfferId, selectedExecutor}), and
\* the UPDATE / PATCH of acceptIntentOffer
writeAccepted(its, id, offerId, executor) ==
    IF its[id].status = "none" THEN its
    ELSE [its EXCEPT ![id].status = "accepted", ![id].acceptedOfferId = offerId,
                     ![id].selectedExecutor = executor]

\* expireIntents(ts): pending intents whose deadline is before ts
expireIntents(its, ts) ==
    [id \in IntentIds |->
        IF its[id].status = "pending" /\ its[id].deadline < ts
        THEN [its[id] EXCEPT !.status = "expired"] ELSE its[id]]

\* recordOffer: Map.set keeps the place of an id already there
recordOffer(offs, offer) ==
    LET same == {i \in 1..Len(offs) : OfferIdOf(offs[i]) = OfferIdOf(offer)}
    IN IF same # {} THEN [offs EXCEPT ![CHOOSE i \in same : TRUE] = offer]
       ELSE Append(offs, offer)

\* listOffersForIntent: by createdAt ascending, which is the order of insertion
listOffersForIntent(offs, intentId) ==
    SelectSeq(offs, LAMBDA o : o.intentId = intentId)

\* settleDeal: fields not given are kept from the existing row
settleDeal(ds, intentId, executorAddress, fee, txHash, outcome) ==
    [ds EXCEPT ![intentId] =
        [exists |-> TRUE,
         executorAddress |-> IF executorAddress # "" THEN executorAddress ELSE @.executorAddress,
         fee |-> IF fee.def THEN fee ELSE @.fee,
         txHash |-> IF txHash # "" THEN txHash ELSE @.txHash,
         outcome |-> IF outcome # "" THEN outcome ELSE @.outcome]]

\* no record in the peers table
NoPeer == [def |-> FALSE, val |-> 0, stake |-> 0, stakeAgeSeconds |-> 0]

\* upsertPeer: the reputation, stake and stakeAgeSeconds of the record; a
\* stake or stake age not given keeps the value of the existing record, 0
\* when there is none
upsertPeer(ps, address, reputation, stake, ageSeconds) ==
    [ps EXCEPT ![address] =
        [def |-> TRUE, val |-> reputation,
         stake |-> IF stake.def THEN stake.val ELSE @.stake,
         stakeAgeSeconds |-> IF ageSeconds.def THEN ageSeconds.val ELSE @.stakeAgeSeconds]]

(***************************************************************************)
(* router.js: the ranker.  Scores are kept as integers, score * 10000.     *)
(***************************************************************************)

\* weights.reputation, weights.fee, weights.speed, times 10000
ReputationWeight == 5000
FeeWeight == 3000
SpeedWeight == 2000

\* tieWindow 0.05, times 10000
TieWindow == 500

SeqMin(s) == CHOOSE x \in {s[i] : i \in 1..Len(s)} : \A j \in 1..Len(s) : x <= s[j]
SeqMax(s) == CHOOSE x \in {s[i] : i \in 1..Len(s)} : \A j \in 1..Len(s) : x >= s[j]

\* the greatest member of a set of numbers
Greatest(S) == CHOOSE k \in S : \A j \in S : j <= k

\* n / d by g
DivideBoth(n, d, g) == <<n \div g, d \div g>>

\* a fraction <<numerator, denominator>>, d > 0, in lowest terms
Lowest(n, d) == DivideBoth(n, d, Greatest({k \in 1..d : n % k = 0 /\ d % k = 0}))

\* (v - min) / (max - min), 1 when all values are equal
normalizeOne(v, lo, hi) == IF hi = lo THEN <<1, 1>> ELSE Lowest(v - lo, hi - lo)

\* normalize, the i-th value as a fraction
normalize(values, i) == normalizeOne(values[i], SeqMin(values), SeqMax(values))

\* (1/eta - 1/max) / (1/min - 1/max), 1 when all etas are equal
normalizeSpeedOne(eta, lo, hi) ==
    IF hi = lo THEN <<1, 1>> ELSE Lowest((hi - eta) * lo, eta * (hi - lo))

\* normalize over 1 / eta, for positive etas
normalizeSpeed(etas, i) == normalizeSpeedOne(etas[i], SeqMin(etas), SeqMax(etas))

\* weights.reputation * repNorm + weights.fee * (1 - feeNorm)
\* + weights.speed * speedNorm, rounded to four decimals, times 10000
weightedScore(rn, fn, sn) ==
    (2 * (ReputationWeight * rn[1] * fn[2] * sn[2]
          + FeeWeight * (fn[2] - fn[1]) * rn[2] * sn[2]
          + SpeedWeight * sn[1] * rn[2] * fn[2])
     + rn[2] * fn[2] * sn[2]) \div (2 * rn[2] * fn[2] * sn[2])

\* scoreOffers: Number(score.toFixed(4)) of the i-th offer, times 10000
scoreOffers(offs, live, i) ==
    weightedScore(normalize(live, i),
                  normalize([k \in 1..Len(offs) |-> offs[k].fee], i),
                  normalizeSpeed([k \in 1..Len(offs) |-> offs[k].etaSeconds], i))

Abs(x) == IF x < 0 THEN -x ELSE x

\* the order of pickBestOffer's first sort: score, then live reputation; the
\* sort is stable, so ties keep the listing order
SortedBefore(live, sc, i, j) ==
    \/ sc[i] > sc[j]
    \/ sc[i] = sc[j] /\ live[i] > live[j]
    \/ sc[i] = sc[j] /\ live[i] = live[j] /\ i <= j

\* sorted[0]
sortedFirst(live, sc) == CHOOSE i \in DOMAIN sc : \A j \in DOMAIN sc : SortedBefore(live, sc, i, j)

\* the offers within tieWindow of the best score
competitorsOf(sc, best) == {i \in DOMAIN sc : Abs(sc[best] - sc[i]) <= TieWindow}

\* the order of the second sort: stake age, then createdAt, then as sorted
CompetitorBefore(offs, live, sc, i, j) ==
    \/ offs[i].stakeAgeSeconds > offs[j].stakeAgeSeconds
    \/ /\ offs[i].stakeAgeSeconds = offs[j].stakeAgeSeconds
       /\ offs[i].createdAt < offs[j].createdAt
    \/ /\ offs[i].stakeAgeSeconds = offs[j].stakeAgeSeconds
       /\ offs[i].createdAt = offs[j].createdAt
       /\ SortedBefore(live, sc, i, j)

\* competitors[0]
firstCompetitor(offs, live, sc, competitors) ==
    CHOOSE i \in competitors : \A j \in competitors : CompetitorBefore(offs, live, sc, i, j)

\* pickBestOffer on offers scored sc
pickScored(offs, live, sc) ==
    firstCompetitor(offs, live, sc, competitorsOf(sc, sortedFirst(live, sc)))

\* pickBestOffer over rankOffers' result: the index (in listing order) of the
\* offer picked, 0 when there is none
pickBestOffer(offs, live) ==
    IF Len(offs) = 0 THEN 0
    ELSE pickScored(offs, live, [i \in 1..Len(offs) |-> scoreOffers(offs, live, i)])

\* the reputation client the coordinator builds (getReputationClient): the
\* sdk of the coordinator specifications offers no raw client
liveReputation(address) == getReputation(rcfg, "none", RepState, address, Undef)
liveStake(address) == getStakeInfo(rcfg, "none", RepState, address, Undef)

\* the offer autoAcceptBestOffer picks among the offers listed
bestOffer(offs) ==
    IF Len(offs) = 0 THEN NoOffer
    ELSE offs[pickBestOffer(offs, [i \in 1..Len(offs) |->
                                    liveReputation(offs[i].fromAddress).value])]

(***************************************************************************)
(* Operations in flight: acceptIntentOffer and the selection that calls    *)
(* it, step by step between suspension points (every await)                *)
(***************************************************************************)

\* bound: how many operations are in flight together
NumTasks == 2
TaskIds == 1..NumTasks

\* bound: how many offers the Store holds
MaxOffers == 2

\* bound: the clock stops here
MaxTime == 3

\* the fees offered, in 1/1000 TON
Fees == {1000, 2000}
Deadlines == {2}

\* config.defaultEta / args.eta || '5s', as parseEtaSeconds reads it
DefaultEtaSeconds == 5

\* no inbound message
NoMessage == [type |-> "none", from |-> "", to |-> "", fee |-> 0, deadline |-> 0,
              skillOk |-> FALSE, txHash |-> ""]

NoTask == [kind |-> "none", pc |-> "idle", wait |-> FALSE, offerId |-> NoOfferId,
           executor |-> "", fee |-> 0, cur |-> "none", res |-> "", posted |-> FALSE,
           txHash |-> "", reputation |-> 0, key |-> "", msg |-> NoMessage]

\* a step of task t
Step(t, rec) == tasks' = [tasks EXCEPT ![t] = rec]

\* what acceptIntentOffer answers on the status it read
AcceptAnswer(status) ==
    IF status = "none" THEN "intent_not_found"
    ELSE IF status # "pending" THEN "intent_not_pending"
    ELSE "ok"

\* a caller invokes acceptIntentOffer(sdk, 'i1', offerId, executorAddress)
AcceptCall(t) ==
    /\ tasks[t].pc = "idle"
    /\ \E a \in Others :
         Step(t, [tasks[t] EXCEPT !.kind = "accept", !.pc = "accept_call",
                                  !.offerId = OfferId("i1", a, 1), !.executor = a])
    /\ UNCHANGED <<backend, intents, offers, deals, peers, processedMessages, pgLock>>
    /\ UNCHANGED raceFrame

\* memory: `const current = await getIntent(sdk, intentId)`: the row is read
\* when getIntent is called, the caller resumes later
AcceptMemRead(t) ==
    /\ getBackendMode = "memory"
    /\ tasks[t].pc = "accept_call"
    /\ Step(t, [tasks[t] EXCEPT !.pc = "accept_check", !.cur = intents["i1"].status])
    /\ UNCHANGED <<backend, intents, offers, deals, peers, processedMessages, pgLock>>
    /\ UNCHANGED raceFrame

\* memory: the caller resumes, tests the row it read and calls
\* updateIntentStatus, which writes at once
AcceptMemWrite(t) ==
    /\ getBackendMode = "memory"
    /\ tasks[t].pc = "accept_check"
    /\ Step(t, [tasks[t] EXCEPT !.pc = "accept_ret", !.res = AcceptAnswer(tasks[t].cur)])
    /\ intents' = IF tasks[t].cur = "pending"
                  THEN writeAccepted(intents, "i1", tasks[t].offerId, tasks[t].executor)
                  ELSE intents
    /\ UNCHANGED <<backend, offers, deals, peers, processedMessages, pgLock>>
    /\ UNCHANGED raceFrame

\* postgres: BEGIN; SELECT ... FOR UPDATE waits for the row lock
AcceptPgLock(t) ==
    /\ getBackendMode = "postgres"
    /\ tasks[t].pc = "accept_call"
    /\ pgLock = 0
    /\ pgLock' = IF intents["i1"].status = "none" THEN 0 ELSE t
    /\ Step(t, [tasks[t] EXCEPT !.pc = "accept_locked", !.cur = intents["i1"].status])
    /\ UNCHANGED <<backend, intents, offers, deals, peers, processedMessages>>
    /\ UNCHANGED raceFrame

\* postgres: the test, the UPDATE and COMMIT, which releases the lock
AcceptPgUpdate(t) ==
    /\ getBackendMode = "postgres"
    /\ tasks[t].pc = "accept_locked"
    /\ Step(t, [tasks[t] EXCEPT !.pc = "accept_ret", !.res = AcceptAnswer(tasks[t].cur)])
    /\ intents' = IF tasks[t].cur = "pending"
                  THEN writeAccepted(intents, "i1", tasks[t].offerId, tasks[t].executor)
                  ELSE intents
    /\ pgLock' = IF pgLock = t THEN 0 ELSE pgLock
    /\ UNCHANGED <<backend, offers, deals, peers, processedMessages>>
    /\ UNCHANGED raceFrame

\* supabase: PATCH intents?id=eq.i1&status=eq.pending, one statement on the server
AcceptSbPatch(t) ==
    /\ getBackendMode = "supabase-rest"
    /\ tasks[t].pc = "accept_call"
    /\ IF intents["i1"].status = "pending"
       THEN /\ intents' = writeAccepted(intents, "i1", tasks[t].offerId, tasks[t].executor)
            /\ Step(t, [tasks[t] EXCEPT !.pc = "accept_ret", !.res = "ok"])
       ELSE /\ intents' = intents
            /\ Step(t, [tasks[t] EXCEPT !.pc = "accept_reread"])
    /\ UNCHANGED <<backend, offers, deals, peers, processedMessages, pgLock>>
    /\ UNCHANGED raceFrame

\* supabase: no row was patched; getIntent tells why
AcceptSbReread(t) ==
    /\ getBackendMode = "supabase-rest"
    /\ tasks[t].pc = "accept_reread"
    /\ Step(t, [tasks[t] EXCEPT !.pc = "accept_ret",
                                !.res = IF intents["i1"].status = "pending"
                                        THEN "intent_accept_failed"
                                        ELSE AcceptAnswer(intents["i1"].status)])
    /\ UNCHANGED <<backend, intents, offers, deals, peers, processedMessages, pgLock>>
    /\ UNCHANGED raceFrame

\* ---- selection: handleOffer and processDeadlinesOnce calling autoAcceptBestOffer

\* handleOffer up to its call of autoAcceptBestOffer: the offer is recorded,
\* the intent must be this agent's own
RaceOfferStart(t) ==
    /\ tasks[t].pc = "idle"
    /\ \E from \in Others, fee \in Fees :
         LET offer == [intentId |-> "i1", fromAddress |-> from, fee |-> fee,
                       etaSeconds |-> DefaultEtaSeconds,
                       stakeAgeSeconds |-> 0, createdAt |-> now]
         IN /\ Len(recordOffer(offers, offer)) <= MaxOffers
            /\ offers' = recordOffer(offers, offer)
    /\ Step(t, [tasks[t] EXCEPT !.kind = "offer", !.wait = TRUE,
                                !.pc = IF intents["i1"].fromAddress = Self
                                       THEN "sel_get" ELSE "done"])
    /\ UNCHANGED <<backend, intents, deals, peers, processedMessages, pgLock>>
    /\ UNCHANGED raceFrame

\* a scheduler tick, processDeadlinesOnce: listIntents({status:'pending'}) and
\* the deadline test
RaceTickStart(t) ==
    /\ tasks[t].pc = "idle"
    /\ Step(t, [tasks[t] EXCEPT !.kind = "tick", !.wait = FALSE,
                                !.pc = IF intents["i1"].status = "pending"
                                          /\ intents["i1"].deadline <= now
                                       THEN "sel_get" ELSE "done"])
    /\ UNCHANGED <<backend, intents, offers, deals, peers, processedMessages, pgLock>>
    /\ UNCHANGED raceFrame

\* where a selection that selected nothing goes on: the tick re-reads the intent
AfterNoSelection(t) == IF tasks[t].kind = "tick" THEN "tick_latest" ELSE "done"

\* autoAcceptBestOffer: getIntent and the pending test
SelGetIntent(t) ==
    /\ tasks[t].pc = "sel_get"
    /\ Step(t, [tasks[t] EXCEPT !.pc = IF intents["i1"].status = "pending"
                                       THEN "sel_rank" ELSE AfterNoSelection(t)])
    /\ UNCHANGED <<backend, intents, offers, deals, peers, processedMessages, pgLock>>
    /\ UNCHANGED raceFrame

\* autoAcceptBestOffer: listOffersForIntent, rankOffers, pickBestOffer and the
\* waitForDeadline test
SelRank(t) ==
    /\ tasks[t].pc = "sel_rank"
    /\ \E best \in {bestOffer(listOffersForIntent(offers, "i1"))} :
         IF best = NoOffer \/ (tasks[t].wait /\ now < intents["i1"].deadline)
         THEN Step(t, [tasks[t] EXCEPT !.pc = AfterNoSelection(t)])
         ELSE Step(t, [tasks[t] EXCEPT !.pc = "accept_call",
                                       !.offerId = OfferIdOf(best),
                                       !.executor = best.fromAddress,
                                       !.fee = best.fee])
    /\ UNCHANGED <<backend, intents, offers, deals, peers, processedMessages, pgLock>>
    /\ UNCHANGED raceFrame

\* autoAcceptBestOffer: `if (!accepted.ok) return { skipped: true, ... }`
SelAfterAccept(t) ==
    /\ tasks[t].pc = "accept_ret"
    /\ tasks[t].kind \in {"offer", "tick"}
    /\ Step(t, [tasks[t] EXCEPT !.pc = IF tasks[t].res = "ok" THEN "sel_post"
                                       ELSE AfterNoSelection(t)])
    /\ UNCHANGED <<backend, intents, offers, deals, peers, processedMessages, pgLock>>
    /\ UNCHANGED raceFrame

\* autoAcceptBestOffer: postMeshMessage(accept)
SelPost(t) ==
    /\ tasks[t].pc = "sel_post"
    /\ Step(t, [tasks[t] EXCEPT !.pc = "sel_deal", !.posted = TRUE])
    /\ UNCHANGED <<backend, intents, offers, deals, peers, processedMessages, pgLock>>
    /\ UNCHANGED raceFrame

\* autoAcceptBestOffer: settleDeal pre-seeds the deal
SelDeal(t) ==
    /\ tasks[t].pc = "sel_deal"
    /\ deals' = settleDeal(deals, "i1", tasks[t].executor, Num(tasks[t].fee), "", "")
    /\ Step(t, [tasks[t] EXCEPT !.pc = "done"])
    /\ UNCHANGED <<backend, intents, offers, peers, processedMessages, pgLock>>
    /\ UNCHANGED raceFrame

\* processDeadlinesOnce: `const latest = await getIntent(sdk, intent.id)`
TickLatest(t) ==
    /\ tasks[t].pc = "tick_latest"
    /\ Step(t, [tasks[t] EXCEPT !.pc = IF intents["i1"].status = "pending"
                                       THEN "tick_expire" ELSE "done"])
    /\ UNCHANGED <<backend, intents, offers, deals, peers, processedMessages, pgLock>>
    /\ UNCHANGED raceFrame

\* processDeadlinesOnce: updateIntentStatus(sdk, intent.id, 'expired')
TickExpire(t) ==
    /\ tasks[t].pc = "tick_expire"
    /\ intents' = updateIntentStatus(intents, "i1", "expired")
    /\ Step(t, [tasks[t] EXCEPT !.pc = "done"])
    /\ UNCHANGED <<backend, offers, deals, peers, processedMessages, pgLock>>
    /\ UNCHANGED raceFrame

\* the Store before the calls: the agent's own intent, pending
RaceStoreInit ==
    /\ backend \in Backends
    /\ intents = [id \in IntentIds |->
                    [status |-> "pending", fromAddress |-> Self, deadline |-> 2,
                     acceptedOfferId |-> NoOfferId, selectedExecutor |-> ""]]
    /\ offers = <<>>
    /\ deals = [id \in IntentIds |-> NoDeal]
    /\ peers = [a \in Addrs |-> NoPeer]
    /\ processedMessages = {}
    /\ tasks = [t \in TaskIds |-> NoTask]
    /\ pgLock = 0
    /\ pgPool = "unset"
    /\ processedDb = {}
    /\ insertedTrue = [k \in Keys |-> 0]
    /\ lcLast = NoMark
    /\ schedulerOn = TRUE

(***************************************************************************)
(* index.js: the coordinator.  A tool call, an inbound message or a        *)
(* scheduler tick is one step here; amounts are in 1/1000 TON.             *)
(***************************************************************************)

\* expirySweepIntervalMs, default 1000, in seconds
SweepEverySeconds == 1

\* the budget of the intent followed, and config.minFee (default 0.1)
Budgets == {2000}
MinFee == 100

MessageIds == {"m1", "m2"}

\* the inbound MESH messages, as parseMeshMessage hands them over; "garbage"
\* is a text that does not parse
Messages ==
    [type : {"garbage"}, from : {""}, to : {""}, fee : {0}, deadline : {0},
     skillOk : {FALSE}, txHash : {""}]
    \cup [type : {"beacon"}, from : {Self, "EQY"}, to : {""}, fee : {0}, deadline : {0},
          skillOk : {FALSE}, txHash : {""}]
    \cup [type : {"intent"}, from : {Self}, to : {""}, fee : {0},
          deadline : Deadlines, skillOk : {FALSE}, txHash : {""}]
    \cup [type : {"intent"}, from : {"EQY"}, to : {""}, fee : {0},
          deadline : Deadlines, skillOk : {TRUE}, txHash : {""}]
    \cup [type : {"offer"}, from : {"EQY"}, to : {""}, fee : {1000}, deadline : {0},
          skillOk : {FALSE}, txHash : {""}]
    \cup [type : {"accept"}, from : {"EQY"}, to : {"EQZ"}, fee : {1000},
          deadline : {0}, skillOk : {FALSE}, txHash : {""}]
    \cup [type : {"settle"}, from : {"EQY"}, to : {""}, fee : {0}, deadline : {0},
          skillOk : {FALSE}, txHash : {"t1"}]

NoCall == [op |-> "none", outcome |-> "", sent |-> ""]

\* everything a handler reads and writes
Cur == [intents |-> intents, offers |-> offers, deals |-> deals, peers |-> peers,
        processed |-> processedMessages, rep |-> RepState,
        sweep |-> lastExpirySweepAt, call |-> NoCall]

\* how a handler ends: what it returned or that it threw, and the MESH
\* message it posted ("" when none)
Ret(st, op, outcome, sent) ==
    [st EXCEPT !.call = [op |-> op, outcome |-> outcome, sent |-> sent]]

\* Math.max(0, now() - since) of getStakeInfo
stakeAgeSeconds(rep, address) ==
    IF rep.stakeSince[address].def THEN Max2(0, now - rep.stakeSince[address].val) ELSE 0

\* withSetup: the expiry sweep, when the interval has passed
withSetup(st) ==
    IF ~st.sweep.def \/ now - st.sweep.val >= SweepEverySeconds
    THEN [st EXCEPT !.intents = expireIntents(@, now), !.sweep = Num(now)]
    ELSE st

\* defaultOfferForIntent: min(budget, max(minFee, budget * 0.75 || minFee))
defaultOfferForIntent(budget) ==
    LET threeQuarters == IF budget = 0 THEN MinFee ELSE (budget * 3 + 2) \div 4
    IN IF Max2(MinFee, threeQuarters) <= budget THEN Max2(MinFee, threeQuarters) ELSE budget

\* autoAcceptBestOffer, run without interleaving
autoAcceptBest(st, op, wait, best) ==
    IF st.intents["i1"].status # "pending" \/ best = NoOffer
    THEN Ret(st, op, "no_selection", "")
    ELSE IF wait /\ now < st.intents["i1"].deadline
    THEN Ret(st, op, "deferred", "")
    ELSE Ret([st EXCEPT
                !.intents = writeAccepted(@, "i1", OfferIdOf(best), best.fromAddress),
                !.deals = settleDeal(@, "i1", best.fromAddress, Num(best.fee), "", "")],
             op, "accepted", "accept")

autoAcceptBestOffer(st, op, wait) ==
    autoAcceptBest(st, op, wait, bestOffer(listOffersForIntent(st.offers, "i1")))

\* runMeshRegister
runMeshRegister(st, stake) ==
    LET reg == registerAgent(rcfg, "none", st.rep, Self, stake)
        rp == getReputation(rcfg, "none", reg.st, Self, Undef)
        sk == getStakeInfo(rcfg, "none", reg.st, Self, Undef)
    IN IF ~reg.ok THEN Ret(st, "mesh_register", "threw", "")
       ELSE IF ~rp.ok \/ ~sk.ok THEN Ret([st EXCEPT !.rep = reg.st], "mesh_register", "threw", "")
       ELSE Ret([st EXCEPT !.rep = reg.st, !.peers = upsertPeer(@, Self, reg.value, Num(stake),
                                                            Num(stakeAgeSeconds(reg.st, Self)))],
                "mesh_register", "ok", "beacon")

\* runMeshBroadcast
runMeshBroadcast(st, deadline) ==
    IF deadline <= now THEN Ret(st, "mesh_broadcast", "threw", "")
    ELSE Ret([st EXCEPT !.intents = saveIntent(@, "i1", Self, deadline, "pending")],
             "mesh_broadcast", "ok", "intent")

\* runMeshOffer testing `fee <= 0` only
offerFeeNotPositive(fee, budget) == fee <= 0

\* runMeshOffer's tests of the fee: `fee <= 0` throws, `fee > budget` throws
offerFeeRefused(fee, budget) == fee <= 0 \/ fee > budget

\* runMeshOffer
runMeshOffer(st, op, fee, auto, skillOk) ==
    LET intent == st.intents["i1"]
        rp == getReputation(rcfg, "none", st.rep, Self, Undef)
        sk == getStakeInfo(rcfg, "none", st.rep, Self, Undef)
        offer == [intentId |-> "i1", fromAddress |-> Self, fee |-> fee,
                  etaSeconds |-> DefaultEtaSeconds,
                  stakeAgeSeconds |-> stakeAgeSeconds(st.rep, Self), createdAt |-> now]
    IN IF intent.status = "none" THEN Ret(st, op, "threw", "")
       ELSE IF intent.fromAddress = Self /\ ~auto THEN Ret(st, op, "threw", "")
       ELSE IF ~skillOk THEN Ret(st, op, "threw", "")
       ELSE IF \A b \in Budgets : offerFeeRefused(fee, b) THEN Ret(st, op, "threw", "")
       ELSE IF ~rp.ok \/ ~sk.ok THEN Ret(st, op, "threw", "")
       ELSE Ret([st EXCEPT !.offers = recordOffer(@, offer)], op, "ok", "offer")

\* runMeshSettle refusing only after the settlement is written
runMeshSettleLateCheck(st, txHash, rating, host) ==
    LET intent == st.intents["i1"]
        deal == st.deals["i1"]
        payment == verifyPayment(rcfg, txHash, host)
        ro == recordOutcome(rcfg, st.rep, Self, txHash, rating)
    IN IF intent.status = "none" THEN Ret(st, "mesh_settle", "threw", "")
       ELSE IF ~ro.ok THEN Ret(st, "mesh_settle", "threw", "")
       ELSE Ret([st EXCEPT
                   !.rep = ro.st,
                   !.deals = settleDeal(@, "i1", Self, IF deal.fee.def THEN deal.fee ELSE Num(0),
                                        txHash, "success"),
                   !.intents = updateIntentStatus(@, "i1", "settled"),
                   !.peers = upsertPeer(@, Self, ro.value, Undef, Undef)],
                "mesh_settle", IF payment.ok THEN "ok" ELSE "payment_refused", "settle")

\* runMeshSettle
runMeshSettle(st, txHash, rating, host) ==
    LET intent == st.intents["i1"]
        deal == st.deals["i1"]
        payment == verifyPayment(rcfg, txHash, host)
        ro == recordOutcome(rcfg, st.rep, Self, txHash, rating)
    IN IF intent.status = "none" THEN Ret(st, "mesh_settle", "threw", "")
       ELSE IF ~payment.ok THEN Ret(st, "mesh_settle", "payment_refused", "")
       ELSE IF ~ro.ok THEN Ret(st, "mesh_settle", "threw", "")
       ELSE Ret([st EXCEPT
                   !.rep = ro.st,
                   !.deals = settleDeal(@, "i1", Self, IF deal.fee.def THEN deal.fee ELSE Num(0),
                                        txHash, "success"),
                   !.intents = updateIntentStatus(@, "i1", "settled"),
                   !.peers = upsertPeer(@, Self, ro.value, Undef, Undef)],
                "mesh_settle", "ok", "settle")

\* handleBeacon without `if (reputation <= 0) return { ignored: true, .. }`
handleBeaconAnyReputation(st, msg) ==
    LET rp == getReputation(rcfg, "none", st.rep, msg.from, Undef)
        sk == getStakeInfo(rcfg, "none", st.rep, msg.from, Undef)
    IN IF ~rp.ok THEN Ret(st, "onMessage", "threw", "")
       ELSE IF ~sk.ok THEN Ret(st, "onMessage", "threw", "")
       ELSE Ret([st EXCEPT !.peers = upsertPeer(@, msg.from, rp.value, Num(sk.value),
                                                Num(stakeAgeSeconds(st.rep, msg.from)))],
                "onMessage", "upserted", "")

\* handleBeacon; "unstaked_or_unknown_peer" is { ignored: true, reason: .. }
handleBeacon(st, msg) ==
    LET rp == getReputation(rcfg, "none", st.rep, msg.from, Undef)
        sk == getStakeInfo(rcfg, "none", st.rep, msg.from, Undef)
    IN IF ~rp.ok THEN Ret(st, "onMessage", "threw", "")
       ELSE IF rp.value <= 0 THEN Ret(st, "onMessage", "unstaked_or_unknown_peer", "")
       ELSE IF ~sk.ok THEN Ret(st, "onMessage", "threw", "")
       ELSE Ret([st EXCEPT !.peers = upsertPeer(@, msg.from, rp.value, Num(sk.value),
                                                Num(stakeAgeSeconds(st.rep, msg.from)))],
                "onMessage", "upserted", "")

\* handleIntent
handleIntent(st, msg) ==
    LET saved == [st EXCEPT !.intents = saveIntent(@, "i1", msg.from, msg.deadline, "pending")]
        selfRep == getReputation(rcfg, "none", st.rep, Self, Undef)
        budget == CHOOSE b \in Budgets : TRUE
    IN IF msg.from = Self THEN Ret(saved, "onMessage", "saved", "")
       ELSE IF ~msg.skillOk THEN Ret(saved, "onMessage", "saved", "")
       ELSE IF ~selfRep.ok THEN Ret(saved, "onMessage", "threw", "")
       ELSE IF selfRep.value < 0 THEN Ret(saved, "onMessage", "saved", "")
       ELSE IF defaultOfferForIntent(budget) > budget THEN Ret(saved, "onMessage", "saved", "")
       ELSE runMeshOffer(saved, "onMessage", defaultOfferForIntent(budget), TRUE, TRUE)

\* handleOffer selecting without regard to config.waitForDeadline
handleOfferSelectsAtOnce(st, msg) ==
    LET sk == getStakeInfo(rcfg, "none", st.rep, msg.from, Undef)
        rp == getReputation(rcfg, "none", st.rep, msg.from, Undef)
        offer == [intentId |-> "i1", fromAddress |-> msg.from, fee |-> msg.fee,
                  etaSeconds |-> DefaultEtaSeconds,
                  stakeAgeSeconds |-> stakeAgeSeconds(st.rep, msg.from), createdAt |-> now]
        recorded == [st EXCEPT !.offers = recordOffer(@, offer)]
    IN IF ~sk.ok \/ ~rp.ok THEN Ret(st, "onMessage", "threw", "")
       ELSE IF st.intents["i1"].status = "none" \/ st.intents["i1"].fromAddress # Self
            THEN Ret(recorded, "onMessage", "saved", "")
       ELSE autoAcceptBestOffer(recorded, "onMessage", FALSE)

\* handleOffer
handleOffer(st, msg) ==
    LET sk == getStakeInfo(rcfg, "none", st.rep, msg.from, Undef)
        rp == getReputation(rcfg, "none", st.rep, msg.from, Undef)
        offer == [intentId |-> "i1", fromAddress |-> msg.from, fee |-> msg.fee,
                  etaSeconds |-> DefaultEtaSeconds,
                  stakeAgeSeconds |-> stakeAgeSeconds(st.rep, msg.from), createdAt |-> now]
        recorded == [st EXCEPT !.offers = recordOffer(@, offer)]
    IN IF ~sk.ok \/ ~rp.ok THEN Ret(st, "onMessage", "threw", "")
       ELSE IF st.intents["i1"].status = "none" \/ st.intents["i1"].fromAddress # Self
            THEN Ret(recorded, "onMessage", "saved", "")
       ELSE autoAcceptBestOffer(recorded, "onMessage", waitForDeadline)

\* handleAccept
handleAccept(st, msg) ==
    Ret([st EXCEPT
           !.intents = IF @["i1"].status = "pending"
                       THEN updateIntentAccepted(@, "i1", msg.to) ELSE @,
           !.deals = IF @["i1"].exists THEN @
                     ELSE settleDeal(@, "i1", msg.to, Num(msg.fee), "", "")],
        "onMessage", "accepted", "")

\* handleSettle
handleSettle(st, msg) ==
    LET rp == getReputation(rcfg, "none", st.rep, msg.from, Undef)
        written == [st EXCEPT
                      !.deals = settleDeal(@, "i1", msg.from, Undef, msg.txHash, "success"),
                      !.intents = updateIntentStatus(@, "i1", "settled")]
    IN IF ~rp.ok THEN Ret(written, "onMessage", "threw", "")
       ELSE Ret([written EXCEPT !.peers = upsertPeer(@, msg.from, rp.value, Undef, Undef)],
                "onMessage", "settled", "")

\* onMessage: `switch (msg.type)`
dispatch(st, msg) ==
    IF msg.type = "beacon" THEN handleBeacon(st, msg)
    ELSE IF msg.type = "intent" THEN handleIntent(st, msg)
    ELSE IF msg.type = "offer" THEN handleOffer(st, msg)
    ELSE IF msg.type = "accept" THEN handleAccept(st, msg)
    ELSE handleSettle(st, msg)

\* onMessage after withSetup: parse, the dedup gate, the dispatch
onMessage(st, messageId, msg) ==
    IF msg.type = "garbage" THEN Ret(st, "onMessage", "unparsed", "")
    ELSE IF messageId \in st.processed THEN Ret(st, "onMessage", "duplicate", "")
    ELSE dispatch([st EXCEPT !.processed = @ \cup {messageId}], msg)

\* processDeadlinesOnce without the re-read and updateIntentStatus(.., 'expired')
afterSelectionNoExpiry(st, selection) ==
    IF selection.call.outcome = "accepted" THEN selection
    ELSE Ret(st, "tick", "scanned", "")

\* processDeadlinesOnce, run without interleaving
afterSelection(st, selection) ==
    IF selection.call.outcome = "accepted" THEN selection
    ELSE Ret([st EXCEPT !.intents = updateIntentStatus(@, "i1", "expired")],
             "tick", "expired", "")

processDeadlinesOnce(st) ==
    IF st.intents["i1"].status # "pending" \/ st.intents["i1"].deadline > now
    THEN Ret(st, "tick", "scanned", "")
    ELSE afterSelection(st, autoAcceptBestOffer(st, "tick", FALSE))

\* the acceptance first recorded for each intent
noteAccepted(fa, its) ==
    [id \in IntentIds |->
        IF ~fa[id].def /\ its[id].status = "accepted"
        THEN [def |-> TRUE, offerId |-> its[id].acceptedOfferId,
              executor |-> its[id].selectedExecutor]
        ELSE fa[id]]

NoAcceptance == [def |-> FALSE, offerId |-> NoOfferId, executor |-> ""]

\* how handleBeacon ends when it does not throw
BeaconReturns == {"unstaked_or_unknown_peer", "upserted"}

\* how a mesh_settle call ends when it throws
Thrown == {"threw", "payment_refused"}

\* a handler has run to its end on the state it was given: its writes take
\* effect (the handler's result is computed once)
Commit(result) ==
    \E st \in {result} :
        /\ Len(st.offers) <= MaxOffers
        /\ intents' = st.intents
        /\ offers' = st.offers
        /\ deals' = st.deals
        /\ peers' = st.peers
        /\ processedMessages' = st.processed
        /\ scores' = st.rep.scores
        /\ stakes' = st.rep.stakes
        /\ stakeSince' = st.rep.stakeSince
        /\ txSeen' = st.rep.txSeen
        /\ lastExpirySweepAt' = st.sweep
        /\ lastThrown' = IF st.call.op = "mesh_settle" /\ st.call.outcome \in Thrown
                         THEN st.call.outcome ELSE lastThrown
        /\ ticked' = (st.call.op = "tick")
        /\ lastBeacon' = IF st.call.outcome \in BeaconReturns THEN st.call.outcome ELSE ""
        /\ firstAccepted' = noteAccepted(firstAccepted, st.intents)
        /\ UNCHANGED <<now, waitForDeadline, backend, rcfg, repLast, tasks, pgLock>>
        /\ UNCHANGED <<verifyVars, lifeVars, callVars>>

\* the clock advances
Tick ==
    /\ now < MaxTime
    /\ now' = now + 1
    /\ ticked' = FALSE
    /\ lastBeacon' = ""
    /\ UNCHANGED <<lastExpirySweepAt, lastThrown, waitForDeadline, firstAccepted>>
    /\ UNCHANGED <<storeVars, raceVars, repVars, verifyVars, lifeVars, callVars>>

\* tool mesh_register
MeshRegister == \E stake \in {50, 100} : Commit(runMeshRegister(withSetup(Cur), stake))

\* tool mesh_broadcast, under a fresh id
MeshBroadcast ==
    /\ intents["i1"].status = "none"
    /\ \E deadline \in Deadlines : Commit(runMeshBroadcast(withSetup(Cur), deadline))

\* tool mesh_offer
MeshOffer ==
    \E fee \in {1000}, skillOk \in BOOLEAN :
        Commit(runMeshOffer(withSetup(Cur), "mesh_offer", fee, FALSE, skillOk))

\* tool mesh_settle
MeshSettle ==
    \E txHash \in {"t1"}, host \in HostVerifiers :
        Commit(runMeshSettle(withSetup(Cur), txHash, 9, host))

\* tool mesh_peers
MeshPeers == Commit(Ret(withSetup(Cur), "mesh_peers", "ok", ""))

\* onMessage(event, sdk)
OnMessage ==
    \E messageId \in MessageIds, msg \in Messages :
        Commit(onMessage(withSetup(Cur), messageId, msg))

\* a tick of the deadline scheduler
SchedulerTick == Commit(processDeadlinesOnce(Cur))

\* the agent after start(): registered with config.stake, its own peer record
\* written, the first sweep done
StartedRep ==
    [scores |-> [EmptyMap EXCEPT ![Self] = Num(100)],
     stakes |-> [EmptyMap EXCEPT ![Self] = Num(StakeOne)],
     stakeSince |-> [EmptyMap EXCEPT ![Self] = Num(1)],
     txSeen |-> {}]

CoordInit ==
    /\ now = 1
    /\ lastExpirySweepAt = Num(1)
    /\ lastThrown = ""
    /\ ticked = FALSE
    /\ lastBeacon = ""
    /\ waitForDeadline \in BOOLEAN
    /\ firstAccepted = [id \in IntentIds |-> NoAcceptance]
    /\ backend = "memory"
    /\ intents = [id \in IntentIds |-> NoIntent]
    /\ offers = <<>>
    /\ deals = [id \in IntentIds |-> NoDeal]
    /\ peers = upsertPeer([a \in Addrs |-> NoPeer], Self, 100, Num(StakeOne), Num(0))
    /\ processedMessages = {}
    /\ rcfg = [mode |-> "testnet", strictChain |-> "unset",
               allowLocalReputationFallback |-> "unset", hostAdapter |-> FALSE]
    /\ scores = StartedRep.scores /\ stakes = StartedRep.stakes
    /\ stakeSince = StartedRep.stakeSince /\ txSeen = StartedRep.txSeen
    /\ repLast = NoRepCall

(***************************************************************************)
(* Lifecycle: start(), stop() and the backend the Store resolves to        *)
(***************************************************************************)

\* markProcessedMessage(sdk, {key}): one INSERT ... ON CONFLICT DO NOTHING, one
\* ignore-duplicates request, or has/add on the in-memory Set with no await
\* between them
markProcessedMessage(key) ==
    /\ IF backend = "supabase-rest"
       THEN /\ lcLast' = [key |-> key, inserted |-> key \notin processedDb]
            /\ processedDb' = processedDb \cup {key}
            /\ UNCHANGED <<processedMessages, pgPool>>
       ELSE IF getPgPool = "open"
       THEN /\ lcLast' = [key |-> key, inserted |-> key \notin processedDb]
            /\ processedDb' = processedDb \cup {key}
            /\ pgPool' = "open"
            /\ UNCHANGED processedMessages
       ELSE /\ lcLast' = [key |-> key, inserted |-> key \notin processedMessages]
            /\ processedMessages' = processedMessages \cup {key}
            /\ pgPool' = "null"
            /\ UNCHANGED processedDb
    /\ insertedTrue' = [insertedTrue EXCEPT ![key] =
                            IF lcLast'.inserted /\ @ < 2 THEN @ + 1 ELSE @]

LifeMarkProcessed ==
    /\ \E key \in Keys : markProcessedMessage(key)
    /\ UNCHANGED schedulerOn
    /\ UNCHANGED lifeFrame

\* start(ctx): withSetup reaches the Store (getPgPool), ensureDeadlineScheduler
LifeStart ==
    /\ schedulerOn' = TRUE
    /\ pgPool' = IF backend = "supabase-rest" THEN pgPool ELSE getPgPool
    /\ UNCHANGED <<processedMessages, processedDb, insertedTrue, lcLast>>
    /\ UNCHANGED lifeFrame

\* stop(ctx): clearInterval, closeRegistry
LifeStop ==
    /\ schedulerOn' = FALSE
    /\ pgPool' = IF pgPool = "open" THEN "null" ELSE pgPool
    /\ UNCHANGED <<processedMessages, processedDb, insertedTrue, lcLast>>
    /\ UNCHANGED lifeFrame

LifeInit ==
    /\ backend \in Backends
    /\ pgPool = "unset"
    /\ processedDb = {}
    /\ processedMessages = {}
    /\ insertedTrue = [k \in Keys |-> 0]
    /\ lcLast = NoMark
    /\ schedulerOn = FALSE
    /\ intents = [id \in IntentIds |-> NoIntent]
    /\ offers = <<>>
    /\ deals = [id \in IntentIds |-> NoDeal]
    /\ peers = [a \in Addrs |-> NoPeer]

LifeIdle ==
    /\ pgPool = "unset"
    /\ processedDb = {}
    /\ insertedTrue = [k \in Keys |-> 0]
    /\ lcLast = NoMark
    /\ schedulerOn = FALSE

StoreIdle ==
    /\ backend = "memory"
    /\ intents = [id \in IntentIds |-> NoIntent]
    /\ offers = <<>>
    /\ deals = [id \in IntentIds |-> NoDeal]
    /\ peers = [a \in Addrs |-> NoPeer]
    /\ processedMessages = {}

CoordIdle ==
    /\ now = 0
    /\ lastExpirySweepAt = Undef
    /\ lastThrown = ""
    /\ ticked = FALSE
    /\ lastBeacon = ""
    /\ waitForDeadline = TRUE
    /\ firstAccepted = [id \in IntentIds |-> NoAcceptance]

RaceIdle ==
    /\ tasks = [t \in TaskIds |-> NoTask]
    /\ pgLock = 0

(***************************************************************************)
(* An offer followed from the budget to the Store: the mesh_offer tool and  *)
(* the auto-offer of handleIntent.  Amounts are in 1/10000 TON here, so    *)
(* that toFixed(3) has something to round.                                 *)
(***************************************************************************)

\* bound: the largest budget, minFee and fee, in 1/10000 TON
MaxAmount == 24
Amounts == 0..MaxAmount

Min2(a, b) == IF a <= b THEN a ELSE b

\* Number(x.toFixed(3)) of an amount x >= 0 that is n / d of 1/10000 TON.  An
\* x halfway between two thousandths goes up or down with its binary
\* expansion (0.0025 up, 0.0045 down): tieUp says which
toFixed3(n, d, tieUp) ==
    IF n % (10 * d) = 5 * d /\ ~tieUp THEN (n \div (10 * d)) * 10
    ELSE ((2 * n + 10 * d) \div (20 * d)) * 10

\* defaultOfferForIntent, the fee as a number: String(fee.toFixed(3)...) of
\* Math.min(budget, Math.max(minFee, Number((budget * 0.75 || minFee).toFixed(3))))
suggestedFee(budget, minFee, tieUp) ==
    toFixed3(Min2(budget, Max2(minFee, IF budget = 0 THEN toFixed3(minFee, 1, tieUp)
                                       ELSE toFixed3(3 * budget, 4, tieUp))), 1, tieUp)

NoQuote == [pc |-> "idle", path |-> "", budget |-> 0, minFee |-> 0, fee |-> 0,
            outcome |-> "", recorded |-> Undef, sent |-> ""]

\* how runMeshOffer ends on a fee, past its tests of the intent and the skill
offerOutcome(q, fee) ==
    IF offerFeeRefused(fee, q.budget)
    THEN [q EXCEPT !.pc = "done", !.fee = fee, !.outcome = "threw"]
    ELSE [q EXCEPT !.pc = "done", !.fee = fee, !.outcome = "ok",
                   !.recorded = Num(fee), !.sent = "offer"]

\* how handleIntent ends on the fee suggested, past its tests of the sender,
\* the skill and the reputation
autoOfferOutcome(q, suggested) ==
    IF suggested > q.budget
    THEN [q EXCEPT !.pc = "done", !.fee = suggested, !.outcome = "budget_too_low"]
    ELSE offerOutcome(q, suggested)

\* the mesh_offer tool, called with a fee on an intent of another agent
QuoteTool ==
    /\ quote.pc = "new"
    /\ \E fee \in Amounts : quote' = offerOutcome([quote EXCEPT !.path = "tool"], fee)
    /\ UNCHANGED <<ranking, codec, send, sched>>
    /\ UNCHANGED <<verifyVars, repVars, storeVars, coordVars, raceVars, lifeVars>>

\* an intent of another agent comes in and handleIntent offers on it
QuoteAuto ==
    /\ quote.pc = "new"
    /\ \E tieUp \in BOOLEAN :
         quote' = autoOfferOutcome([quote EXCEPT !.path = "auto"],
                                   suggestedFee(quote.budget, quote.minFee, tieUp))
    /\ UNCHANGED <<ranking, codec, send, sched>>
    /\ UNCHANGED <<verifyVars, repVars, storeVars, coordVars, raceVars, lifeVars>>

QuoteInit ==
    \E budget \in Amounts, minFee \in Amounts :
        quote = [NoQuote EXCEPT !.pc = "new", !.budget = budget, !.minFee = minFee]

(***************************************************************************)
(* A selection followed from the offers listed to the offer picked:        *)
(* scoreOffers, rankOffers and pickBestOffer on offers drawn at will       *)
(***************************************************************************)

\* who the offers listed are from, in the order they were recorded
RankFrom == <<"EQX", "EQY", "EQZ">>

\* what an offer may say, and the live reputation of who made it
RankFees == {50, 100}
RankEtas == {5, 10}
RankStakeAges == {0, 60}
RankReputations == {0, 90, 100}

\* the offer recorded at place i
RankOffer(i, fee, eta, age) ==
    [intentId |-> "i1", fromAddress |-> RankFrom[i], fee |-> fee, etaSeconds |-> eta,
     stakeAgeSeconds |-> age, createdAt |-> 1]

\* the orders a list of n offers can be handed over in
Orders(n) == {p \in [1..n -> 1..n] : \A i, j \in 1..n : p[i] = p[j] => i = j}

NoSelection == [n |-> 0, order |-> <<>>, winner |-> ""]

\* the order of listing
Listing(n) == [i \in 1..n |-> i]

\* pool: the offers listed; live: the live reputation of each address;
\* prev, last: the selections run when the last two offers came in;
\* again: a selection over the same offers, handed over in another order
NoRanking == [pool |-> <<>>, live |-> [a \in Addrs |-> 0],
              prev |-> NoSelection, last |-> NoSelection, again |-> NoSelection]

\* the offer pickBestOffer returns for the offers as handed over
pickedFrom(offs, live) == offs[pickBestOffer(offs, live)].fromAddress

\* scoreOffers, rankOffers and pickBestOffer on the pool handed over in this order
selectIn(pool, live, order) ==
    [n |-> Len(pool), order |-> order,
     winner |-> pickedFrom([i \in 1..Len(pool) |-> pool[order[i]]],
                           [i \in 1..Len(pool) |-> live[pool[order[i]].fromAddress]])]

\* the pool with one more offer, and the selection over it as listed
withOffer(r, pool, live) ==
    [pool |-> pool, live |-> live, prev |-> r.last,
     last |-> selectIn(pool, live, Listing(Len(pool))), again |-> NoSelection]

\* handleOffer: one more offer is recorded, and a selection is run over the
\* offers as the Store lists them
RankOfferIn ==
    /\ Len(ranking.pool) < Len(RankFrom)
    /\ \E fee \in RankFees, eta \in RankEtas, age \in RankStakeAges, reputation \in RankReputations :
         ranking' = withOffer(ranking,
                              Append(ranking.pool, RankOffer(Len(ranking.pool) + 1, fee, eta, age)),
                              [ranking.live EXCEPT ![RankFrom[Len(ranking.pool) + 1]] = reputation])
    /\ UNCHANGED <<quote, codec, send, sched>>
    /\ UNCHANGED <<verifyVars, repVars, storeVars, coordVars, raceVars, lifeVars>>

\* a selection over the same offers, listed in another order
RankReorder ==
    /\ Len(ranking.pool) > 0
    /\ \E order \in Orders(Len(ranking.pool)) \ {Listing(Len(ranking.pool))} :
         ranking' = [ranking EXCEPT !.again = selectIn(ranking.pool, ranking.live, order)]
    /\ UNCHANGED <<quote, codec, send, sched>>
    /\ UNCHANGED <<verifyVars, repVars, storeVars, coordVars, raceVars, lifeVars>>

(***************************************************************************)
(* router.js: the MESH wire codec.  A JavaScript value is its kind, its    *)
(* text or number class, and a number; a message is its fields by name.    *)
(***************************************************************************)

FieldNames ==
    {"v", "type", "from", "id", "intentId", "skills", "minFee", "responseTime", "stake",
     "replyChat", "skill", "payload", "budget", "deadline", "minReputation", "fee", "eta",
     "reputation", "escrowAddress", "to", "selectedAt", "txHash", "outcome", "rating",
     "against", "reason", "evidenceTx"}

JsUndefined == [k |-> "undefined", s |-> "", n |-> 0]
JsNull == [k |-> "null", s |-> "", n |-> 0]
\* a string: its text without the surrounding whitespace, and how much
\* whitespace surrounds it
JsString(s, pad) == [k |-> "string", s |-> s, n |-> pad]
JsInteger(n) == [k |-> "number", s |-> "integer", n |-> n]
\* 1.5
JsFraction == [k |-> "number", s |-> "fraction", n |-> 1]
\* what JSON.parse makes of 1e999
JsInfinity == [k |-> "number", s |-> "Infinity", n |-> 0]
JsTrue == [k |-> "boolean", s |-> "true", n |-> 0]
\* ["swap"], ["swap", 1] and {}
JsStringArray == [k |-> "array", s |-> "strings", n |-> 0]
JsMixedArray == [k |-> "array", s |-> "mixed", n |-> 0]
JsObject == [k |-> "object", s |-> "", n |-> 0]

\* the object with the fields of the record r
Message(r) == [f \in FieldNames |-> IF f \in DOMAIN r THEN r[f] ELSE JsUndefined]

\* null, where a message is expected
NullMessage == [f \in FieldNames |-> JsNull]

\* a ?? b
Coalesce(a, b) == IF a.k \in {"null", "undefined"} THEN b ELSE a

MeshPrefix == "MESH:"
MeshVersion == JsString("1.0", 0)
KnownTypes == {"beacon", "intent", "offer", "accept", "settle", "dispute"}

asString(value) ==
    IF value.k = "string" /\ value.s # "" THEN JsString(value.s, 0) ELSE JsNull

asInteger(value) ==
    IF value.k = "number" /\ value.s = "integer" THEN value ELSE JsNull

asStringArray(value) == IF value = JsStringArray THEN value ELSE JsNull

hasFields(msg, required) == \A key \in required : msg[key].k \notin {"undefined", "null"}

\* normalizeBase; both fields null when it returns null
normalizeBase(obj) ==
    IF asString(obj["type"]) = JsNull \/ asString(obj["type"]).s \notin KnownTypes
    THEN [v |-> JsNull, type |-> JsNull]
    ELSE [v |-> Coalesce(asString(obj["v"]), MeshVersion), type |-> asString(obj["type"])]

\* the tail of every sanitizer: null without a base, null without the
\* required fields
Sanitized(base, msg, required) ==
    IF base.type = JsNull THEN NullMessage
    ELSE IF hasFields(msg, required) THEN msg ELSE NullMessage

RequiredOf(type) ==
    CASE type = "beacon" -> {"from", "skills"}
      [] type = "intent" -> {"id", "from", "skill", "budget", "deadline"}
      [] type = "offer" -> {"intentId", "from", "fee", "eta"}
      [] type = "accept" -> {"intentId", "from", "to", "fee"}
      [] type = "settle" -> {"intentId", "from", "txHash", "outcome", "rating"}
      [] OTHER -> {"intentId", "from", "against"}

sanitizeBeacon(obj) ==
    LET base == normalizeBase(obj)
    IN Sanitized(base,
         Message([v |-> base.v, type |-> base.type,
                  from |-> asString(obj["from"]),
                  skills |-> asStringArray(obj["skills"]),
                  minFee |-> asString(obj["minFee"]),
                  responseTime |-> asString(obj["responseTime"]),
                  stake |-> asString(obj["stake"]),
                  replyChat |-> IF obj["replyChat"].k = "number" THEN obj["replyChat"]
                                ELSE JsNull]),
         RequiredOf("beacon"))

sanitizeIntent(obj) ==
    LET base == normalizeBase(obj)
        minReputation == IF obj["minReputation"].k \in {"null", "undefined"} THEN JsInteger(0)
                         ELSE asInteger(obj["minReputation"])
        deadline == asInteger(obj["deadline"])
    IN IF minReputation = JsNull \/ minReputation.n < 0 THEN NullMessage
       ELSE IF deadline = JsNull \/ deadline.n <= 0 THEN NullMessage
       ELSE Sanitized(base,
              Message([v |-> base.v, type |-> base.type,
                       id |-> asString(obj["id"]),
                       from |-> asString(obj["from"]),
                       skill |-> asString(obj["skill"]),
                       payload |-> IF obj["payload"].k \in {"object", "array"}
                                   THEN obj["payload"] ELSE JsObject,
                       budget |-> asString(obj["budget"]),
                       deadline |-> deadline,
                       minReputation |-> minReputation]),
              RequiredOf("intent"))

sanitizeOffer(obj) ==
    LET base == normalizeBase(obj)
    IN Sanitized(base,
         Message([v |-> base.v, type |-> base.type,
                  intentId |-> asString(obj["intentId"]),
                  from |-> asString(obj["from"]),
                  fee |-> asString(obj["fee"]),
                  eta |-> asString(obj["eta"]),
                  reputation |-> IF obj["reputation"].k \in {"null", "undefined"}
                                 THEN JsUndefined ELSE asInteger(obj["reputation"]),
                  escrowAddress |-> IF obj["escrowAddress"].k \in {"null", "undefined"}
                                    THEN JsUndefined ELSE asString(obj["escrowAddress"])]),
         RequiredOf("offer"))

sanitizeAccept(obj, nowTs) ==
    LET base == normalizeBase(obj)
    IN Sanitized(base,
         Message([v |-> base.v, type |-> base.type,
                  intentId |-> asString(obj["intentId"]),
                  from |-> asString(obj["from"]),
                  to |-> asString(obj["to"]),
                  fee |-> asString(obj["fee"]),
                  selectedAt |-> Coalesce(asInteger(obj["selectedAt"]), JsInteger(nowTs))]),
         RequiredOf("accept"))

sanitizeSettle(obj) ==
    LET base == normalizeBase(obj)
        rating == asInteger(obj["rating"])
    IN IF rating = JsNull \/ rating.n < 1 \/ rating.n > 10 THEN NullMessage
       ELSE Sanitized(base,
              Message([v |-> base.v, type |-> base.type,
                       intentId |-> asString(obj["intentId"]),
                       from |-> asString(obj["from"]),
                       txHash |-> asString(obj["txHash"]),
                       outcome |-> asString(obj["outcome"]),
                       rating |-> rating]),
              RequiredOf("settle"))

sanitizeDispute(obj) ==
    LET base == normalizeBase(obj)
    IN Sanitized(base,
         Message([v |-> base.v, type |-> base.type,
                  intentId |-> asString(obj["intentId"]),
                  from |-> asString(obj["from"]),
                  against |-> asString(obj["against"]),
                  reason |-> asString(obj["reason"]),
                  evidenceTx |-> asString(obj["evidenceTx"])]),
         RequiredOf("dispute"))

\* sanitizeMessage of a value: `obj?.type` is undefined unless it is an
\* object, and the switch compares the type as written
sanitizeMessage(top, nowTs) ==
    IF top.k # "object" THEN NullMessage
    ELSE IF top.at["type"] = JsString("beacon", 0) THEN sanitizeBeacon(top.at)
    ELSE IF top.at["type"] = JsString("intent", 0) THEN sanitizeIntent(top.at)
    ELSE IF top.at["type"] = JsString("offer", 0) THEN sanitizeOffer(top.at)
    ELSE IF top.at["type"] = JsString("accept", 0) THEN sanitizeAccept(top.at, nowTs)
    ELSE IF top.at["type"] = JsString("settle", 0) THEN sanitizeSettle(top.at)
    ELSE IF top.at["type"] = JsString("dispute", 0) THEN sanitizeDispute(top.at)
    ELSE NullMessage

\* parseMeshMessage: the text is trimmed, so whitespace before the prefix
\* does not count
parseMeshMessage(text, nowTs) ==
    IF text.prefix # MeshPrefix THEN NullMessage
    ELSE IF ~text.valid THEN NullMessage
    ELSE sanitizeMessage(text.top, nowTs)

\* JSON.stringify of a sanitized message, read back by JSON.parse: a key
\* whose value is undefined is left out, a number that is not finite is
\* written as null
stringify(msg) ==
    [f \in FieldNames |-> IF msg[f] = JsInfinity THEN JsNull ELSE msg[f]]

NoText == [lead |-> 0, prefix |-> "", valid |-> FALSE,
           top |-> [k |-> "null", at |-> NullMessage]]

\* serializeMeshMessage; NoText when it throws 'Invalid MESH message'
serializeMeshMessage(message, nowTs) ==
    LET sanitized == sanitizeMessage([k |-> IF message = NullMessage THEN "null" ELSE "object",
                                      at |-> message], nowTs)
    IN IF sanitized = NullMessage THEN NoText
       ELSE [lead |-> 0, prefix |-> MeshPrefix, valid |-> TRUE,
             top |-> [k |-> "object", at |-> stringify(sanitized)]]

\* a message of each kind with every field given, as the builders make it
FullMessage(type) ==
    CASE type = "beacon" ->
           Message([v |-> MeshVersion, type |-> JsString(type, 0), from |-> JsString("EQX", 0),
                    skills |-> JsStringArray, minFee |-> JsString("0.1", 0),
                    responseTime |-> JsString("< 5s", 0), stake |-> JsString("1.0", 0),
                    replyChat |-> JsInteger(5)])
      [] type = "intent" ->
           Message([v |-> MeshVersion, type |-> JsString(type, 0), id |-> JsString("i1", 0),
                    from |-> JsString("EQX", 0), skill |-> JsString("swap", 0),
                    payload |-> JsObject, budget |-> JsString("2", 0),
                    deadline |-> JsInteger(5), minReputation |-> JsInteger(1)])
      [] type = "offer" ->
           Message([v |-> MeshVersion, type |-> JsString(type, 0),
                    intentId |-> JsString("i1", 0), from |-> JsString("EQY", 0),
                    fee |-> JsString("1", 0), eta |-> JsString("5s", 0),
                    reputation |-> JsInteger(10), escrowAddress |-> JsString("EQZ", 0)])
      [] type = "accept" ->
           Message([v |-> MeshVersion, type |-> JsString(type, 0),
                    intentId |-> JsString("i1", 0), from |-> JsString("EQX", 0),
                    to |-> JsString("EQY", 0), fee |-> JsString("1", 0),
                    selectedAt |-> JsInteger(5)])
      [] type = "settle" ->
           Message([v |-> MeshVersion, type |-> JsString(type, 0),
                    intentId |-> JsString("i1", 0), from |-> JsString("EQX", 0),
                    txHash |-> JsString("t1", 0), outcome |-> JsString("success", 0),
                    rating |-> JsInteger(10)])
      [] OTHER ->
           Message([v |-> MeshVersion, type |-> JsString(type, 0),
                    intentId |-> JsString("i1", 0), from |-> JsString("EQX", 0),
                    against |-> JsString("EQY", 0), reason |-> JsString("late", 0),
                    evidenceTx |-> JsString("t1", 0)])

\* the fields a kind is built from, v and type aside
FieldsOf(type) == {f \in FieldNames \ {"v", "type"} : FullMessage(type)[f] # JsUndefined}

\* the same with the required fields only
MinimalMessage(type) ==
    [f \in FieldNames |->
        IF f \in RequiredOf(type) \cup {"type"} THEN FullMessage(type)[f] ELSE JsUndefined]

\* the values a field is written with
WireValues ==
    {JsUndefined, JsNull, JsString("a", 0), JsString("a", 1), JsString("", 0), JsString("", 1),
     JsString("ping", 0), JsString("settle", 1), JsInteger(0 - 1), JsInteger(0), JsInteger(5),
     JsInteger(11), JsFraction, JsInfinity, JsTrue, JsStringArray, JsMixedArray, JsObject}

\* the texts handed to parseMeshMessage: a well-formed message behind each
\* prefix and as each JSON value, and the messages that differ from a
\* well-formed one in one field
WireTexts ==
    [lead : {0, 1}, prefix : {MeshPrefix, "mesh:", ""}, valid : BOOLEAN,
     top : [k : {"object", "array", "number", "null"}, at : {FullMessage(t) : t \in KnownTypes}]]
    \cup
    {[lead |-> 0, prefix |-> MeshPrefix, valid |-> TRUE,
      top |-> [k |-> "object", at |-> [base EXCEPT ![f] = value]]] :
        base \in {FullMessage(t) : t \in KnownTypes} \cup {MinimalMessage(t) : t \in KnownTypes},
        f \in FieldNames, value \in WireValues}

NoCodec == [pc |-> "idle", text |-> NoText, parsed |-> NullMessage, wire |-> NoText,
            reparsed |-> NullMessage]

\* a text arrives
CodecInit == codec \in [pc : {"text"}, text : WireTexts, parsed : {NullMessage},
                        wire : {NoText}, reparsed : {NullMessage}]

\* parseMeshMessage(text), at second 1
CodecParse ==
    /\ codec.pc = "text"
    /\ codec' = [codec EXCEPT !.pc = "parsed", !.parsed = parseMeshMessage(codec.text, 1)]
    /\ UNCHANGED <<quote, ranking, send, sched>>
    /\ UNCHANGED <<verifyVars, repVars, storeVars, coordVars, raceVars, lifeVars>>

\* serializeMeshMessage(parsed)
CodecSerialize ==
    /\ codec.pc = "parsed"
    /\ \E wire \in {serializeMeshMessage(codec.parsed, 1)} :
         codec' = [codec EXCEPT !.pc = IF wire = NoText THEN "threw" ELSE "serialized",
                                !.wire = wire]
    /\ UNCHANGED <<quote, ranking, send, sched>>
    /\ UNCHANGED <<verifyVars, repVars, storeVars, coordVars, raceVars, lifeVars>>

\* parseMeshMessage of what was serialized, a second later
CodecReparse ==
    /\ codec.pc = "serialized"
    /\ codec' = [codec EXCEPT !.pc = "reparsed", !.reparsed = parseMeshMessage(codec.wire, 2)]
    /\ UNCHANGED <<quote, ranking, send, sched>>
    /\ UNCHANGED <<verifyVars, repVars, storeVars, coordVars, raceVars, lifeVars>>

(***************************************************************************)
(* index.js: sendTelegramMessage, attempt by attempt.  Delays are in ms.   *)
(***************************************************************************)

\* config.sendRetries and config.sendRetryBaseMs, as numbers or left out
MaxSendRetries == 3
SendRetriesConfigs == {Undef} \cup {Num(n) : n \in (0 - 1)..MaxSendRetries}
SendRetryBaseConfigs == {Undef, Num(10), Num(50), Num(150), Num(200)}

DefaultSendRetries == 2
DefaultSendRetryBaseMs == 150
MinSendRetryBaseMs == 50

\* Math.max(0, Number(config.sendRetries ?? 2))
sendRetriesOf(config) == Max2(0, IF config.def THEN config.val ELSE DefaultSendRetries)

\* Math.max(50, Number(config.sendRetryBaseMs ?? 150))
sendBaseDelayOf(config) ==
    Max2(MinSendRetryBaseMs, IF config.def THEN config.val ELSE DefaultSendRetryBaseMs)

\* the wait before the next attempt, the same after every attempt
retryDelayFlat(baseDelayMs, attempt) == baseDelayMs

\* sleep(baseDelayMs * (2 ** attempt))
retryDelay(baseDelayMs, attempt) == baseDelayMs * (2 ^ attempt)

\* tried: how each attempt ended (TRUE: sendImpl resolved); slept: the waits;
\* value: the attempt whose result was returned or whose error was thrown
NoSend == [pc |-> "idle", hasText |-> FALSE, sendRetries |-> Undef, sendRetryBaseMs |-> Undef,
           attempt |-> 0, tried |-> <<>>, slept |-> <<>>, outcome |-> "", value |-> 0]

\* a send is called
SendInit ==
    send \in [pc : {"called"}, hasText : BOOLEAN, sendRetries : SendRetriesConfigs,
              sendRetryBaseMs : SendRetryBaseConfigs, attempt : {0}, tried : {<<>>},
              slept : {<<>>}, outcome : {""}, value : {0}]

\* `if (!text) throw new Error('Missing text')`, else the loop is entered
SendEnter ==
    /\ send.pc = "called"
    /\ send' = IF send.hasText THEN [send EXCEPT !.pc = "attempt"]
               ELSE [send EXCEPT !.pc = "done", !.outcome = "threw_missing_text"]
    /\ UNCHANGED <<quote, ranking, codec, sched>>
    /\ UNCHANGED <<verifyVars, repVars, storeVars, coordVars, raceVars, lifeVars>>

\* one pass of the for-loop up to its sleep: sendImpl resolves or rejects
SendAttempt ==
    /\ send.pc = "attempt"
    /\ send.attempt <= sendRetriesOf(send.sendRetries)
    /\ \E resolved \in BOOLEAN :
         send' = IF resolved
                 THEN [send EXCEPT !.tried = Append(@, TRUE), !.pc = "done",
                                   !.outcome = "returned", !.value = Len(send.tried) + 1]
                 ELSE IF send.attempt >= sendRetriesOf(send.sendRetries)
                 THEN [send EXCEPT !.tried = Append(@, FALSE), !.pc = "done",
                                   !.outcome = "threw", !.value = Len(send.tried) + 1]
                 ELSE [send EXCEPT !.tried = Append(@, FALSE), !.pc = "sleep"]
    /\ UNCHANGED <<quote, ranking, codec, sched>>
    /\ UNCHANGED <<verifyVars, repVars, storeVars, coordVars, raceVars, lifeVars>>

\* the sleep ends and the loop goes on
SendSleep ==
    /\ send.pc = "sleep"
    /\ send' = [send EXCEPT
                  !.slept = Append(@, retryDelay(sendBaseDelayOf(send.sendRetryBaseMs),
                                                 send.attempt)),
                  !.attempt = @ + 1,
                  !.pc = "attempt"]
    /\ UNCHANGED <<quote, ranking, codec, sched>>
    /\ UNCHANGED <<verifyVars, repVars, storeVars, coordVars, raceVars, lifeVars>>

(***************************************************************************)
(* index.js: the deadline scheduler over several pending intents whose     *)
(* deadlines have passed, tick by tick                                     *)
(***************************************************************************)

\* bound: how many pending intents the Store lists
MaxPending == 3

\* an intent as a tick meets it: raises says that a call made while it is
\* processed rejects (on every tick), offers that an offer is stored for it
ListedIntents == [status : {"pending"}, raises : BOOLEAN, offers : BOOLEAN]

NoSched == [pc |-> "idle", listed |-> <<>>, last |-> ""]

\* ensureDeadlineScheduler has set the interval; listed is the order of
\* listIntents(sdk, {status: 'pending'})
SchedInit ==
    \E n \in 1..MaxPending :
        sched \in [pc : {"armed"}, listed : [1..n -> ListedIntents], last : {""}]

\* processDeadlinesOnce from the k-th intent listed on: the for-loop ends at
\* the first intent that raises
RECURSIVE processFrom(_, _)
processFrom(listed, k) ==
    IF k > Len(listed) THEN [listed |-> listed, threw |-> FALSE]
    ELSE IF listed[k].status # "pending" THEN processFrom(listed, k + 1)
    ELSE IF listed[k].raises THEN [listed |-> listed, threw |-> TRUE]
    ELSE processFrom([listed EXCEPT ![k].status = IF listed[k].offers THEN "accepted"
                                                  ELSE "expired"], k + 1)

\* the interval fires: `try { await processDeadlinesOnce(sdk, config) } catch`
SchedTick ==
    /\ sched.pc = "armed"
    /\ \E r \in {processFrom(sched.listed, 1)} :
         sched' = [sched EXCEPT !.listed = r.listed,
                                !.last = IF r.threw THEN "caught" ELSE "resolved"]
    /\ UNCHANGED <<quote, ranking, codec, send>>
    /\ UNCHANGED <<verifyVars, repVars, storeVars, coordVars, raceVars, lifeVars>>

\* the single calls at rest, for the specifications that do not follow them
CallsIdle ==
    /\ quote = NoQuote
    /\ ranking = NoRanking
    /\ codec = NoCodec
    /\ send = NoSend
    /\ sched = NoSched

(***************************************************************************)
(* Specifications                                                          *)
(***************************************************************************)
Init == CoordInit /\ RaceIdle /\ LifeIdle /\ VerifyIdle /\ CallsIdle

Next ==
    \/ Tick
    \/ MeshRegister
    \/ MeshBroadcast
    \/ MeshOffer
    \/ MeshSettle
    \/ MeshPeers
    \/ OnMessage
    \/ SchedulerTick

Spec == Init /\ [][Next]_vars

InitAccept == RaceStoreInit /\ CoordIdle /\ RepIdle /\ VerifyIdle /\ CallsIdle

NextAccept ==
    \/ \E t \in TaskIds : AcceptCall(t)
    \/ \E t \in TaskIds : AcceptMemRead(t)
    \/ \E t \in TaskIds : AcceptMemWrite(t)
    \/ \E t \in TaskIds : AcceptPgLock(t)
    \/ \E t \in TaskIds : AcceptPgUpdate(t)
    \/ \E t \in TaskIds : AcceptSbPatch(t)
    \/ \E t \in TaskIds : AcceptSbReread(t)

SpecAccept == InitAccept /\ [][NextAccept]_vars

InitRace ==
    /\ RaceStoreInit /\ RepIdle /\ VerifyIdle /\ CallsIdle
    /\ now = 1
    /\ lastExpirySweepAt = Num(1)
    /\ lastThrown = ""
    /\ ticked = FALSE
    /\ lastBeacon = ""
    /\ waitForDeadline = TRUE
    /\ firstAccepted = [id \in IntentIds |-> NoAcceptance]

NextRace ==
    \/ Tick
    \/ \E t \in TaskIds : RaceOfferStart(t)
    \/ \E t \in TaskIds : RaceTickStart(t)
    \/ \E t \in TaskIds : SelGetIntent(t)
    \/ \E t \in TaskIds : SelRank(t)
    \/ \E t \in TaskIds : AcceptMemRead(t)
    \/ \E t \in TaskIds : AcceptMemWrite(t)
    \/ \E t \in TaskIds : AcceptPgLock(t)
    \/ \E t \in TaskIds : AcceptPgUpdate(t)
    \/ \E t \in TaskIds : AcceptSbPatch(t)
    \/ \E t \in TaskIds : AcceptSbReread(t)
    \/ \E t \in TaskIds : SelAfterAccept(t)
    \/ \E t \in TaskIds : SelPost(t)
    \/ \E t \in TaskIds : SelDeal(t)
    \/ \E t \in TaskIds : TickLatest(t)
    \/ \E t \in TaskIds : TickExpire(t)

SpecRace == InitRace /\ [][NextRace]_vars

InitLifecycle == LifeInit /\ CoordIdle /\ RaceIdle /\ RepIdle /\ VerifyIdle /\ CallsIdle

NextLifecycle == LifeMarkProcessed \/ LifeStart \/ LifeStop

SpecLifecycle == InitLifecycle /\ [][NextLifecycle]_vars

InitVerify == VerifyInit /\ RepIdle /\ StoreIdle /\ CoordIdle /\ RaceIdle /\ LifeIdle /\ CallsIdle

NextVerify == VerifyStart \/ VerifyScan \/ VerifyNotFound

SpecVerify == InitVerify /\ [][NextVerify]_vars

InitRep == RepInit /\ VerifyIdle /\ StoreIdle /\ CoordIdle /\ RaceIdle /\ LifeIdle /\ CallsIdle

NextRep ==
    \/ RepRegister
    \/ RepGetReputation
    \/ RepGetStakeInfo
    \/ RepRecordOutcome
    \/ RepSlash
    \/ RepWithdraw
    \/ RepVerifyPayment

SpecRep == InitRep /\ [][NextRep]_vars

InitOffer ==
    /\ QuoteInit /\ ranking = NoRanking /\ codec = NoCodec /\ send = NoSend
    /\ sched = NoSched
    /\ RepIdle /\ VerifyIdle /\ StoreIdle /\ CoordIdle /\ RaceIdle /\ LifeIdle

NextOffer == QuoteTool \/ QuoteAuto

SpecOffer == InitOffer /\ [][NextOffer]_vars

InitRank ==
    /\ quote = NoQuote /\ ranking = NoRanking /\ codec = NoCodec /\ send = NoSend
    /\ sched = NoSched
    /\ RepIdle /\ VerifyIdle /\ StoreIdle /\ CoordIdle /\ RaceIdle /\ LifeIdle

NextRank == RankOfferIn \/ RankReorder

SpecRank == InitRank /\ [][NextRank]_vars

InitCodec ==
    /\ CodecInit /\ quote = NoQuote /\ ranking = NoRanking /\ send = NoSend
    /\ sched = NoSched
    /\ RepIdle /\ VerifyIdle /\ StoreIdle /\ CoordIdle /\ RaceIdle /\ LifeIdle

NextCodec == CodecParse \/ CodecSerialize \/ CodecReparse

SpecCodec == InitCodec /\ [][NextCodec]_vars

InitSend ==
    /\ SendInit /\ quote = NoQuote /\ ranking = NoRanking /\ codec = NoCodec
    /\ sched = NoSched
    /\ RepIdle /\ VerifyIdle /\ StoreIdle /\ CoordIdle /\ RaceIdle /\ LifeIdle

InitSched ==
    /\ SchedInit /\ quote = NoQuote /\ ranking = NoRanking /\ codec = NoCodec
    /\ send = NoSend
    /\ RepIdle /\ VerifyIdle /\ StoreIdle /\ CoordIdle /\ RaceIdle /\ LifeIdle

NextSched == SchedTick

\* the interval keeps firing
SpecSched == InitSched /\ [][NextSched]_vars /\ WF_vars(NextSched)

NextSend == SendEnter \/ SendAttempt \/ SendSleep

\* sendImpl settles and the timer of sleep fires
SpecSend == InitSend /\ [][NextSend]_vars /\ WF_vars(NextSend)

(***************************************************************************)
(* Claims                                                                  *)
(***************************************************************************)
\* C10 (as stated): ok:true only if the matched transaction has an internal
\* inbound message, the expected destination, the expected source when one is
\* given, a matching amount, age at most maxTxAgeSeconds and did not fail;
\* otherwise the reason is that of the first failing check in that order, and
\* tx_not_found_in_recent_recipient_history when no hash matched.
AgeOf(tx) == VerifierNow - tx.now

AmountAsClaimed(tx, args, opts) ==
    args.amount.def =>
        IF opts.allowAmountGreaterOrEqual THEN tx.coins >= args.amount.val
        ELSE tx.coins = args.amount.val

AgeAsClaimed(tx, args, opts) ==
    EffectiveMaxAge(args, opts).def => AgeOf(tx) <= EffectiveMaxAge(args, opts).val

\* the amended reading: only a positive limit bounds the age
AgeAsAmended(tx, args, opts) ==
    (EffectiveMaxAge(args, opts).def /\ EffectiveMaxAge(args, opts).val > 0)
        => AgeOf(tx) <= EffectiveMaxAge(args, opts).val

ReasonInOrder(tx, args, opts, ageOk) ==
    IF tx.inMsg # "internal" THEN "tx_has_no_internal_inbound"
    ELSE IF tx.dest # args.expectedRecipient THEN "recipient_mismatch"
    ELSE IF args.expectedSender # "" /\ tx.src # args.expectedSender THEN "sender_mismatch"
    ELSE IF ~AmountAsClaimed(tx, args, opts) THEN "amount_mismatch"
    ELSE IF ~ageOk THEN "tx_too_old"
    ELSE IF tx.aborted \/ tx.computeVmFailed THEN "tx_failed"
    ELSE "none"

Scanned == vPc = "done" /\ vRes.reason \notin
    {"missing_tx_hash", "missing_expected_recipient", "invalid_verify_params", "tx_lookup_failed"}

C10_AsStated ==
    Scanned =>
        /\ (vTx = NoTx) <=> (vRes.reason = "tx_not_found_in_recent_recipient_history")
        /\ vTx # NoTx =>
              /\ vTx.hash = normalizeHashHex(vArgs.txHash)
              /\ vRes.reason = ReasonInOrder(vTx, vArgs, vOpts, AgeAsClaimed(vTx, vArgs, vOpts))
              /\ vRes.ok <=> (vRes.reason = "none")

\* C10 (amended): the same, where the age check applies only under a positive
\* limit (args.maxTxAgeSeconds when it is a number, else the verifier's
\* default): a missing, zero or negative limit accepts a transaction of any age.
C10_Amended ==
    Scanned =>
        /\ (vTx = NoTx) <=> (vRes.reason = "tx_not_found_in_recent_recipient_history")
        /\ vTx # NoTx =>
              /\ vTx.hash = normalizeHashHex(vArgs.txHash)
              /\ vRes.reason = ReasonInOrder(vTx, vArgs, vOpts, AgeAsAmended(vTx, vArgs, vOpts))
              /\ vRes.ok <=> (vRes.reason = "none")

\* a call spelled "0xa" matched a transaction older than a zero limit and passed
C10_Witness ==
    /\ vPc = "done" /\ vRes.ok
    /\ vArgs.txHash = <<"0", "x", "a">>
    /\ vArgs.maxTxAgeSeconds = Num(0)
    /\ AgeOf(vTx) > 0
    /\ vArgs.expectedSender # "" /\ vArgs.amount.def

\* C1: two concurrent acceptIntentOffer calls on one pending intent: exactly
\* one returns ok:true, the other ok:false with reason intent_not_pending,
\* on every backend and at every interleaving.
C1_ExactlyOneAccepts ==
    (\A t \in TaskIds : tasks[t].kind = "accept" /\ tasks[t].pc = "accept_ret")
        => /\ Cardinality({t \in TaskIds : tasks[t].res = "ok"}) = 1
           /\ \A t \in TaskIds : tasks[t].res # "ok" => tasks[t].res = "intent_not_pending"

\* the transitions of an intent's status the DAG has
StatusDag == {<<"pending", "accepted">>, <<"pending", "expired">>, <<"accepted", "settled">>}

\* C2: the status of an intent in the Store changes only along
\* pending -> accepted, pending -> expired and accepted -> settled, whatever
\* tool call, inbound message, sweep or scheduler tick the step is.
C2_StatusFollowsDag ==
    [][ \A id \in IntentIds :
          \/ intents[id].status = "none"
          \/ intents'[id].status = intents[id].status
          \/ <<intents[id].status, intents'[id].status>> \in StatusDag ]_vars

\* the selections that reached acceptIntentOffer and have its answer
Answered == {t \in TaskIds : tasks[t].kind \in {"offer", "tick"} /\ tasks[t].res # ""}

\* C3: when selections race on one intent and more than one calls
\* acceptIntentOffer, exactly one call succeeds, every loser is answered
\* intent_not_pending and posts nothing, and one accept message is posted.
C3_OneSelectionWins ==
    ((\A t \in TaskIds : tasks[t].pc = "done") /\ Cardinality(Answered) >= 2)
        => /\ Cardinality({t \in Answered : tasks[t].res = "ok"}) = 1
           /\ \A t \in Answered :
                tasks[t].res # "ok" => (tasks[t].res = "intent_not_pending" /\ ~tasks[t].posted)
           /\ Cardinality({t \in TaskIds : tasks[t].posted}) = 1

\* C4: for every key, markProcessedMessage answers inserted:true at most once
\* in the life of the process.
C4_InsertedAtMostOnce == \A k \in Keys : insertedTrue[k] <= 1

\* C5: onMessage on an event already processed is answered duplicate and
\* writes no peer, intent, offer or deal, runs no reputation operation and
\* posts nothing.
C5_DuplicateWritesNothing ==
    [][ \A messageId \in MessageIds, msg \in Messages :
          ( /\ msg.type # "garbage"
            /\ messageId \in processedMessages
            /\ Commit(onMessage(withSetup(Cur), messageId, msg)) )
          => /\ onMessage(withSetup(Cur), messageId, msg).call.outcome = "duplicate"
             /\ onMessage(withSetup(Cur), messageId, msg).call.sent = ""
             /\ UNCHANGED <<intents, offers, deals, peers>>
             /\ UNCHANGED <<scores, stakes, stakeSince, txSeen>> ]_vars

\* C6: once an intent has been accepted, its acceptedOfferId and
\* selectedExecutor stay what they were at that acceptance.
C6_AcceptanceImmutable ==
    \A id \in IntentIds :
        firstAccepted[id].def
            => /\ intents[id].acceptedOfferId = firstAccepted[id].offerId
               /\ intents[id].selectedExecutor = firstAccepted[id].executor

C8_StrictNeverLocalPayment ==
    (rcfg.strictChain = "true" /\ repLast.op = "verifyPayment")
        => ~(repLast.ok /\ repLast.via = "local")

\* the chain-mutating operations of the reputation client
ChainMutators == {"registerAgent", "recordOutcome", "slash", "withdrawStake"}

\* C9: when strictChain is true and no host adapter is injected, each of
\* registerAgent, recordOutcome, slash and withdrawStake fails and leaves
\* scores, stakes, stakeSince and txSeen unchanged, whatever
\* allowLocalReputationFallback is and whether or not a raw client is there.
C9_StrictMutatorsFail ==
    [][ (rcfg.strictChain = "true" /\ ~rcfg.hostAdapter /\ repLast'.op \in ChainMutators)
            => (~repLast'.ok /\ UNCHANGED <<scores, stakes, stakeSince, txSeen>>) ]_vars

\* the step is a recordOutcome call that ended as `out`
RecordOutcomeEndedAs(out) ==
    /\ repLast' = [op |-> "recordOutcome", ok |-> out.ok, via |-> out.via]
    /\ txSeen' = out.st.txSeen
    /\ scores' = out.st.scores

\* a call that ended as `out` was refused as a replay and changed no score
RefusedAsReplay(out) ==
    RecordOutcomeEndedAs(out) => (~out.ok /\ out.err = "replay" /\ scores' = scores)

StatedDelta(rating) ==
    IF rating >= 9 THEN 15
    ELSE IF rating \in 7..8 THEN 8
    ELSE IF rating \in 5..6 THEN 2
    ELSE IF rating \in 3..4 THEN -10
    ELSE -25

\* the score of an address as the client reports it (getReputation in the
\* local fallback): 0 for an address without a score
ScoreOf(m, address) == GetOr(m, address, 0)

\* a successful local call for executor a with this rating, ended as `out`,
\* moved a's score by the stated delta, not below 0
MovedByStatedDelta(out, a, rating) ==
    (out.ok /\ out.via = "local" /\ RecordOutcomeEndedAs(out))
        => ScoreOf(scores', a) = Max2(0, ScoreOf(scores, a) + StatedDelta(rating))

\* C20: in the local fallback a successful recordOutcome changes the
\* executor's score by +15, +8, +2, -10 or -25 according to the rating,
\* clamped at 0, and no score of the local state is ever negative.
C20_DeltaTableClamped ==
    [][ /\ repLast'.op = "recordOutcome"
           => \A a \in RepExecutors, t \in RepTxHashes, r \in RepRatings :
                  MovedByStatedDelta(recordOutcome(rcfg, RepState, a, t, r), a, r)
        /\ \A a \in RepAddrs : scores'[a].def => scores'[a].val >= 0 ]_vars

\* C12: the mesh_offer tool refuses a fee above the intent's budget (it
\* throws, records no offer, posts nothing), and no offer recorded or posted,
\* by the tool or by the auto-offer of an inbound intent, has a fee above the
\* budget, whatever the budget and minFee.
C12_NoOfferAboveBudget ==
    /\ (quote.path = "tool" /\ quote.pc = "done" /\ quote.fee > quote.budget)
           => (quote.outcome = "threw" /\ ~quote.recorded.def /\ quote.sent = "")
    /\ (quote.recorded.def \/ quote.sent # "")
           => (quote.recorded.def /\ quote.recorded.val <= quote.budget)

\* the tool was called with a fee above the budget and threw
C12_Witness ==
    /\ quote.path = "tool" /\ quote.pc = "done"
    /\ quote.fee > quote.budget /\ quote.budget > 0
    /\ quote.outcome = "threw"

\* C13: the selection depends on the offers only, not on the order they are
\* handed over in: two selections over the same offers pick the same offer,
\* also when offers tie on score, live reputation, stake age and createdAt.
C13_SameOffersSameWinner ==
    ranking.again.n > 0 => ranking.again.winner = ranking.last.winner

\* offer a is strictly dominated by offer b: lower live reputation, higher
\* fee and larger ETA
StrictlyDominated(live, a, b) ==
    /\ live[a.fromAddress] < live[b.fromAddress]
    /\ a.fee > b.fee
    /\ a.etaSeconds > b.etaSeconds

\* C14: when an offer strictly dominated by one already listed is added, the
\* selection picks the same offer as before.
C14_DominatedOfferKeepsWinner ==
    ( /\ ranking.prev.n > 0
      /\ \E i \in 1..ranking.prev.n :
            StrictlyDominated(ranking.live, ranking.pool[ranking.last.n], ranking.pool[i]) )
        => ranking.last.winner = ranking.prev.winner

\* the intent is pending and its deadline has come
Overdue == intents["i1"].status = "pending" /\ intents["i1"].deadline <= now

\* what a tick that ended as `out` leaves of an overdue intent: accepted, with
\* the accept posted, when offers are listed for it; expired, with nothing
\* posted, when none is
TickSettles(out) ==
    Commit(out) =>
        /\ intents'["i1"].status # "pending"
        /\ IF Len(listOffersForIntent(offers, "i1")) > 0
           THEN intents'["i1"].status = "accepted" /\ out.call.sent = "accept"
           ELSE intents'["i1"].status = "expired" /\ out.call.sent = ""

\* C15: after a scheduler tick at time t, an intent that was pending with
\* deadline <= t is no longer pending: it is accepted when the selection
\* (waitForDeadline = false) has a winner and expired otherwise; with no
\* offers it is expired and no accept is posted.
C15_TickLeavesNoneOverdue ==
    [][ /\ Overdue => TickSettles(processDeadlinesOnce(Cur))
        /\ ticked' => ~Overdue' ]_vars

\* the tick has expired an intent without offers at its deadline (the sweep
\* of withSetup expires only after the deadline)
C15_Witness ==
    /\ ticked
    /\ intents["i1"].status = "expired"
    /\ intents["i1"].deadline = now
    /\ Len(listOffersForIntent(offers, "i1")) = 0

\* the offers onMessage can be handed
OfferMessages == {msg \in Messages : msg.type = "offer"}

\* the intent followed is the agent's own and still open
OwnPending(st) ==
    st.intents["i1"].status = "pending" /\ st.intents["i1"].fromAddress = Self

\* what the offer handler's selection did, given the state it ran on
SelectionFromOffer(st, out) ==
    Commit(out) =>
        /\ (waitForDeadline /\ OwnPending(st) /\ now < st.intents["i1"].deadline)
               => /\ out.call.outcome = "deferred"
                  /\ out.call.sent = ""
                  /\ intents' = st.intents
                  /\ deals' = st.deals
        /\ (~waitForDeadline /\ OwnPending(st))
               => /\ out.call.outcome = "accepted"
                  /\ out.call.sent = "accept"
                  /\ intents'["i1"].status = "accepted"

\* C16: with waitForDeadline enabled the selection run from the offer handler
\* is deferred while now < intent.deadline: nothing is accepted and no accept
\* is posted; with waitForDeadline = false it accepts on the first offer.
C16_OfferSelectionWaits ==
    [][ Len(offers') > Len(offers)
        => \A messageId \in MessageIds \ processedMessages, msg \in OfferMessages :
              SelectionFromOffer(withSetup(Cur), onMessage(withSetup(Cur), messageId, msg)) ]_vars

C16_Witness ==
    /\ waitForDeadline
    /\ OwnPending(Cur)
    /\ now < intents["i1"].deadline
    /\ processedMessages # {}
    /\ \E i \in 1..Len(offers) : offers[i].fromAddress = "EQY"

C16_WitnessAtOnce ==
    /\ ~waitForDeadline
    /\ intents["i1"].status = "accepted"
    /\ intents["i1"].selectedExecutor = "EQY"
    /\ now < intents["i1"].deadline

\* the beacons onMessage can be handed
BeaconMessages == {msg \in Messages : msg.type = "beacon"}

\* the addresses listPeers answers
listPeers(ps) == {a \in Addrs : ps[a].def}

\* what the beacon handler did, given the sender
BeaconSettled(out, from) ==
    Commit(out) =>
        /\ liveReputation(from).value <= 0
               => /\ out.call.outcome = "unstaked_or_unknown_peer"
                  /\ peers' = peers
                  /\ listPeers(peers') = listPeers(peers)
        /\ liveReputation(from).value > 0
               => /\ out.call.outcome = "upserted"
                  /\ peers' = [peers EXCEPT ![from] =
                                  [def |-> TRUE, val |-> liveReputation(from).value,
                                   stake |-> GetOr(stakes, from, 0),
                                   stakeAgeSeconds |-> stakeAgeSeconds(RepState, from)]]

\* C17: an inbound beacon from an address whose live reputation is <= 0 is
\* ignored with reason 'unstaked_or_unknown_peer' and the peer table (so what
\* listPeers answers) is unchanged; one from an address with reputation > 0
\* upserts the peer with the live reputation, the stake and the stake age.
C17_BeaconNeedsReputation ==
    [][ processedMessages' # processedMessages
        => \A messageId \in MessageIds \ processedMessages, msg \in BeaconMessages :
              BeaconSettled(onMessage(withSetup(Cur), messageId, msg), msg.from) ]_vars

C17_Witness ==
    /\ lastBeacon = "unstaked_or_unknown_peer"
    /\ liveReputation("EQY").value <= 0
    /\ "EQY" \notin listPeers(peers)

C17_WitnessUpserted ==
    /\ lastBeacon = "upserted"
    /\ peers[Self].val = liveReputation(Self).value
    /\ peers[Self].stakeAgeSeconds > 0

\* the type each sanitizer asks of a field
IntegerFields == {"deadline", "minReputation", "reputation", "selectedAt", "rating"}

TypeCorrect(f, value) ==
    IF f = "skills" THEN value = JsStringArray
    ELSE IF f = "replyChat" THEN value.k = "number"
    ELSE IF f = "payload" THEN value.k \in {"object", "array"}
    ELSE IF f \in IntegerFields THEN value.k = "number" /\ value.s = "integer"
    ELSE value.k = "string"

\* a field is given: neither left out nor null
Present(value) == value.k \notin {"undefined", "null"}

PrefixAndJsonOk(text) == text.prefix = MeshPrefix /\ text.valid /\ text.top.k = "object"

KnownType(obj) == obj["type"].k = "string" /\ obj["type"].s \in KnownTypes

RequiredOk(obj) ==
    \A f \in RequiredOf(obj["type"].s) : Present(obj[f]) /\ TypeCorrect(f, obj[f])

OptionalOk(obj) ==
    \A f \in FieldsOf(obj["type"].s) \ RequiredOf(obj["type"].s) :
        Present(obj[f]) => TypeCorrect(f, obj[f])

RangesOk(obj) ==
    /\ obj["type"].s = "intent"
           => /\ obj["deadline"].n > 0
              /\ Present(obj["minReputation"]) => obj["minReputation"].n >= 0
    /\ obj["type"].s = "settle" => obj["rating"].n \in 1..10

\* C18: parseMeshMessage returns a message only if the prefix matches, the
\* JSON parses, the type is one of the six kinds, every required field is
\* present and type-correct, every optional field that is present is
\* type-correct, and the range checks pass; otherwise it returns null.
C18_ParsedOnlyWellFormed ==
    (codec.pc # "text" /\ codec.parsed # NullMessage)
        => /\ PrefixAndJsonOk(codec.text)
           /\ KnownType(codec.text.top.at)
           /\ RequiredOk(codec.text.top.at)
           /\ OptionalOk(codec.text.top.at)
           /\ RangesOk(codec.text.top.at)

\* the same without the test of the optional fields
C18_ParsedOnlyRequiredOk ==
    (codec.pc # "text" /\ codec.parsed # NullMessage)
        => /\ PrefixAndJsonOk(codec.text)
           /\ KnownType(codec.text.top.at)
           /\ RequiredOk(codec.text.top.at)
           /\ RangesOk(codec.text.top.at)

\* C19: for every message m that parseMeshMessage returns,
\* parseMeshMessage(serializeMeshMessage(m)) equals m, field by field.
C19_RoundTrip ==
    (codec.pc \notin {"text", "parsed"} /\ codec.parsed # NullMessage)
        => codec.pc # "threw" /\ (codec.pc = "reparsed" => codec.reparsed = codec.parsed)

\* the same for the messages in which no number is infinite and the offer's
\* reputation and escrowAddress are not null
C19_RoundTripOfPlainMessages ==
    (codec.pc = "reparsed"
        /\ (\A f \in FieldNames : codec.parsed[f] # JsInfinity)
        /\ codec.parsed["reputation"] # JsNull
        /\ codec.parsed["escrowAddress"] # JsNull)
        => codec.reparsed = codec.parsed

\* the call that just ended was a withdrawStake served by the local fallback
\* (SpecRep withdraws for the addresses of RepCallers)
WithdrawnJustNow == repLast = [op |-> "withdrawStake", ok |-> TRUE, via |-> "local"]

\* the address is in none of the three maps
Unregistered(st, a) == ~st.scores[a].def /\ ~st.stakes[a].def /\ ~st.stakeSince[a].def

\* withdrawStake in the local fallback answers the stake held and leaves the
\* address in none of the maps, and the reads then answer 0
WithdrawRemoves(a) ==
    (repLast'.op = "withdrawStake" /\ repLast'.ok /\ repLast'.via = "local")
        => /\ withdrawStake(rcfg, RepState, a).value = GetOr(stakes, a, 0)
           /\ ~scores'[a].def /\ ~stakes'[a].def /\ ~stakeSince'[a].def
           /\ getReputation(rcfg, "none", withdrawStake(rcfg, RepState, a).st, a, Undef).value = 0
           /\ getStakeInfo(rcfg, "none", withdrawStake(rcfg, RepState, a).st, a, Undef).value = 0

\* a slash or recordOutcome that follows the withdrawal starts from score 0
StartsFromZero(a) ==
    (WithdrawnJustNow /\ repLast'.ok /\ repLast'.via = "local")
        => /\ repLast'.op = "slash" => scores'[a] = Num(Max2(0, 0 - 50))
           /\ (repLast'.op = "recordOutcome" /\ scores'[a].def)
                 => \E r \in RepRatings : scores'[a].val = Max2(0, 0 + StatedDelta(r))

\* C21: in the local fallback withdrawStake(addr) answers the stake held and
\* removes addr from the score, stake and stakeSince maps; until addr
\* registers again its reputation and stake count as zero: getReputation and
\* getStakeInfo answer 0, and recordOutcome or slash on addr start from 0.
C21_WithdrawnCountsAsZero ==
    [][ \A a \in RepCallers : WithdrawRemoves(a) /\ StartsFromZero(a) ]_vars

\* the first half of C21 alone
C21_WithdrawRemovesOnly == [][ \A a \in RepCallers : WithdrawRemoves(a) ]_vars

\* how a send stands, for a number of retries and a base delay: at most
\* retries + 1 attempts, none after one that succeeded, the i-th wait of
\* base * 2^(i-1) and waits between attempts only, the result of the attempt
\* that succeeded returned, the error of the last attempt thrown when all failed
SendShape(retries, base) ==
    /\ Len(send.tried) <= retries + 1
    /\ \A i \in 1..(Len(send.tried) - 1) : ~send.tried[i]
    /\ \A i \in 1..Len(send.slept) : send.slept[i] = base * (2 ^ (i - 1))
    /\ Len(send.slept) = IF send.pc = "attempt" THEN Len(send.tried)
                         ELSE Max2(0, Len(send.tried) - 1)
    /\ send.outcome = "returned"
          => send.tried[Len(send.tried)] /\ send.value = Len(send.tried)
    /\ send.outcome = "threw"
          => /\ ~send.tried[Len(send.tried)]
             /\ Len(send.tried) = retries + 1
             /\ send.value = Len(send.tried)
    /\ (send.pc = "done" /\ send.hasText) => send.outcome \in {"returned", "threw"}

\* C22 (as stated): at most sendRetries + 1 attempts (3 by default), the
\* first success returned, sendRetryBaseMs * 2^attempt waited between
\* attempts, the last error thrown when every attempt failed.
C22_AsStated ==
    SendShape(IF send.sendRetries.def THEN send.sendRetries.val ELSE 2,
              IF send.sendRetryBaseMs.def THEN send.sendRetryBaseMs.val ELSE 150)

\* C22 (amended): the same with max(0, sendRetries) retries and a base
\* delay of max(50, sendRetryBaseMs), and every send comes to an end.
C22_Amended ==
    /\ [] SendShape(IF ~send.sendRetries.def THEN 2
                    ELSE IF send.sendRetries.val < 0 THEN 0 ELSE send.sendRetries.val,
                    IF ~send.sendRetryBaseMs.def THEN 150
                    ELSE IF send.sendRetryBaseMs.val < 50 THEN 50 ELSE send.sendRetryBaseMs.val)
    /\ <>(send.pc = "done")

\* with the defaults, three attempts failed, 150 and 300 ms apart, and the
\* third error was thrown
C22_Witness ==
    /\ ~send.sendRetries.def /\ ~send.sendRetryBaseMs.def
    /\ send.outcome = "threw"
    /\ send.tried = <<FALSE, FALSE, FALSE>>
    /\ send.slept = <<150, 300>>
    /\ send.value = 3

\* the intent followed is stored and was created by another agent
ForeignIntent == intents["i1"].status # "none" /\ intents["i1"].fromAddress # Self

\* the step takes the intent from pending to accepted
AcceptedNow == intents["i1"].status = "pending" /\ intents'["i1"].status = "accepted"

\* C23: selection runs, and an accept is broadcast, only for intents the
\* agent created: neither the offer handler nor the scheduler tick accepts,
\* or broadcasts an accept for, an intent created by another agent.
C23_SelectsOwnIntentsOnly ==
    [][ ForeignIntent
        => /\ (ticked' \/ Len(offers') > Len(offers)) => ~AcceptedNow
           /\ Commit(processDeadlinesOnce(Cur)) => processDeadlinesOnce(Cur).call.sent # "accept"
      ]_vars

\* the same of the offer handler alone
C23_OfferHandlerOwnOnly ==
    [][ (ForeignIntent /\ Len(offers') > Len(offers)) => ~AcceptedNow ]_vars

(***************************************************************************)
(* index.js: handleAccept, await by await, beside the selections and the   *)
(* scheduler ticks of the race above                                       *)
(***************************************************************************)

\* onMessage dispatches an accept for 'i1' naming msg.to and msg.fee
HandleAcceptCall(t) ==
    /\ tasks[t].pc = "idle"
    /\ \E to \in Addrs, fee \in Fees :
         Step(t, [tasks[t] EXCEPT !.kind = "inbound_accept", !.pc = "ha_get_intent",
                                  !.executor = to, !.fee = fee])
    /\ UNCHANGED <<backend, intents, offers, deals, peers, processedMessages, pgLock>>
    /\ UNCHANGED raceFrame

\* `const intent = await getIntent(sdk, msg.intentId)` and the test
\* `intent && intent.status === 'pending'` on the row that was read
HandleAcceptGetIntent(t) ==
    /\ tasks[t].pc = "ha_get_intent"
    /\ Step(t, [tasks[t] EXCEPT !.cur = intents["i1"].status,
                                !.pc = IF intents["i1"].status = "pending"
                                       THEN "ha_update" ELSE "ha_get_deal"])
    /\ UNCHANGED <<backend, intents, offers, deals, peers, processedMessages, pgLock>>
    /\ UNCHANGED raceFrame

\* `await updateIntentStatus(sdk, msg.intentId, 'accepted', {selectedExecutor: msg.to})`:
\* the row as it is now gets the status and the executor, whatever its status
HandleAcceptUpdate(t) ==
    /\ tasks[t].pc = "ha_update"
    /\ intents' = updateIntentAccepted(intents, "i1", tasks[t].executor)
    /\ Step(t, [tasks[t] EXCEPT !.pc = "ha_get_deal"])
    /\ UNCHANGED <<backend, offers, deals, peers, processedMessages, pgLock>>
    /\ UNCHANGED raceFrame

\* `const existing = await getDeal(sdk, msg.intentId)`
HandleAcceptGetDeal(t) ==
    /\ tasks[t].pc = "ha_get_deal"
    /\ Step(t, [tasks[t] EXCEPT !.pc = IF deals["i1"].exists THEN "done" ELSE "ha_settle"])
    /\ UNCHANGED <<backend, intents, offers, deals, peers, processedMessages, pgLock>>
    /\ UNCHANGED raceFrame

\* `await settleDeal(sdk, {intentId, executorAddress: msg.to, fee: msg.fee})`;
\* the reply to the operator's chat that follows writes nothing
HandleAcceptSettleDeal(t) ==
    /\ tasks[t].pc = "ha_settle"
    /\ deals' = settleDeal(deals, "i1", tasks[t].executor, Num(tasks[t].fee), "", "")
    /\ Step(t, [tasks[t] EXCEPT !.pc = "done"])
    /\ UNCHANGED <<backend, intents, offers, peers, processedMessages, pgLock>>
    /\ UNCHANGED raceFrame

NextInbound ==
    \/ Tick
    \/ \E t \in TaskIds : RaceOfferStart(t)
    \/ \E t \in TaskIds : RaceTickStart(t)
    \/ \E t \in TaskIds : SelGetIntent(t)
    \/ \E t \in TaskIds : SelRank(t)
    \/ \E t \in TaskIds : AcceptMemRead(t)
    \/ \E t \in TaskIds : AcceptMemWrite(t)
    \/ \E t \in TaskIds : AcceptPgLock(t)
    \/ \E t \in TaskIds : AcceptPgUpdate(t)
    \/ \E t \in TaskIds : AcceptSbPatch(t)
    \/ \E t \in TaskIds : AcceptSbReread(t)
    \/ \E t \in TaskIds : SelAfterAccept(t)
    \/ \E t \in TaskIds : SelPost(t)
    \/ \E t \in TaskIds : SelDeal(t)
    \/ \E t \in TaskIds : TickLatest(t)
    \/ \E t \in TaskIds : TickExpire(t)
    \/ \E t \in TaskIds : HandleAcceptCall(t)
    \/ \E t \in TaskIds : HandleAcceptGetIntent(t)
    \/ \E t \in TaskIds : HandleAcceptUpdate(t)
    \/ \E t \in TaskIds : HandleAcceptGetDeal(t)
    \/ \E t \in TaskIds : HandleAcceptSettleDeal(t)

SpecInbound == InitRace /\ [][NextInbound]_vars

\* a step of an inbound accept that changes the stored intent
InboundAcceptWrites(t) ==
    /\ tasks[t].kind = "inbound_accept"
    /\ tasks'[t] # tasks[t]
    /\ intents'["i1"] # intents["i1"]

\* C24: an inbound accept changes the stored intent only if the intent is
\* pending at the moment of the write, also beside a local selection or an
\* expiry of the same intent
C24_AcceptWritesPendingOnly ==
    [][ \A t \in TaskIds : InboundAcceptWrites(t) => intents["i1"].status = "pending" ]_vars

\* C24, what the handler does keep: it writes only after it read the intent as
\* pending, and leaves the intents alone when it read anything else
C24_AcceptWritesAfterPendingRead ==
    [][ \A t \in TaskIds : InboundAcceptWrites(t) => tasks[t].cur = "pending" ]_vars

(***************************************************************************)
(* index.js: the selections of the race above, with a Transport that can   *)
(* fail                                                                    *)
(***************************************************************************)

\* autoAcceptBestOffer: postMeshMessage(accept) rejects (meshGroupId missing,
\* or sendTelegramMessage out of retries); the error leaves autoAcceptBestOffer
\* and its caller
SelPostThrows(t) ==
    /\ tasks[t].pc = "sel_post"
    /\ Step(t, [tasks[t] EXCEPT !.pc = "done", !.res = "threw"])
    /\ UNCHANGED <<backend, intents, offers, deals, peers, processedMessages, pgLock>>
    /\ UNCHANGED raceFrame

NextSelection ==
    \/ Tick
    \/ \E t \in TaskIds : RaceOfferStart(t)
    \/ \E t \in TaskIds : RaceTickStart(t)
    \/ \E t \in TaskIds : SelGetIntent(t)
    \/ \E t \in TaskIds : SelRank(t)
    \/ \E t \in TaskIds : AcceptMemRead(t)
    \/ \E t \in TaskIds : AcceptMemWrite(t)
    \/ \E t \in TaskIds : AcceptPgLock(t)
    \/ \E t \in TaskIds : AcceptPgUpdate(t)
    \/ \E t \in TaskIds : AcceptSbPatch(t)
    \/ \E t \in TaskIds : AcceptSbReread(t)
    \/ \E t \in TaskIds : SelAfterAccept(t)
    \/ \E t \in TaskIds : SelPost(t)
    \/ \E t \in TaskIds : SelPostThrows(t)
    \/ \E t \in TaskIds : SelDeal(t)
    \/ \E t \in TaskIds : TickLatest(t)
    \/ \E t \in TaskIds : TickExpire(t)

SpecSelection == InitRace /\ [][NextSelection]_vars

\* no selection is in progress
NoSelectionInProgress == \A t \in TaskIds : tasks[t].pc \in {"idle", "done"}

\* the intent was accepted by a selection of this agent
AcceptedBySelection(id) ==
    /\ intents[id].status = "accepted"
    /\ intents[id].acceptedOfferId # NoOfferId

\* a selection whose acceptIntentOffer succeeded has run to its end
SelectionSucceeded(t) ==
    /\ tasks[t].kind \in {"offer", "tick"}
    /\ tasks[t].pc = "done"
    /\ tasks[t].res \in {"ok", "threw"}

\* C25: when no selection is in progress, every intent accepted by local
\* selection has a deal row and its accept message was broadcast, also when
\* the transport send failed
C25_AcceptedHasDeal ==
    NoSelectionInProgress
        => /\ \A id \in IntentIds : AcceptedBySelection(id) => deals[id].exists
           /\ \A t \in TaskIds : SelectionSucceeded(t) => tasks[t].posted

\* C25, for the selections whose send succeeded: the accept was posted and
\* the deal row exists
C25_PostedHasDeal ==
    \A t \in TaskIds :
        (tasks[t].kind \in {"offer", "tick"} /\ tasks[t].pc = "done" /\ tasks[t].res = "ok")
            => tasks[t].posted /\ deals["i1"].exists

(***************************************************************************)
(* index.js: the tools that send (mesh_broadcast, mesh_offer, mesh_settle) *)
(* and the selection, each up to its postMeshMessage, the send, and what   *)
(* follows it.  One tool runs at a time; the Transport can fail.           *)
(***************************************************************************)

\* no operation is under way
AtRest == \A u \in TaskIds : tasks[u].pc = "idle"

\* the writes a tool made up to its send take effect and task t goes on as rec
ToolCommit(st, t, rec) ==
    /\ Len(st.offers) <= MaxOffers
    /\ intents' = st.intents
    /\ offers' = st.offers
    /\ deals' = st.deals
    /\ peers' = st.peers
    /\ scores' = st.rep.scores
    /\ stakes' = st.rep.stakes
    /\ stakeSince' = st.rep.stakeSince
    /\ txSeen' = st.rep.txSeen
    /\ lastExpirySweepAt' = st.sweep
    /\ processedMessages' = st.processed
    /\ Step(t, rec)
    /\ UNCHANGED <<now, lastThrown, ticked, waitForDeadline, lastBeacon, firstAccepted>>
    /\ UNCHANGED <<backend, pgLock, rcfg, repLast>>
    /\ UNCHANGED <<verifyVars, lifeVars, callVars>>

\* the task of a tool that got as far as its send, or threw before it
ToolTask(kind, result) ==
    [NoTask EXCEPT !.kind = kind,
                   !.pc = IF result.call.outcome = "ok" THEN "tool_post" ELSE "done",
                   !.res = IF result.call.outcome = "ok" THEN "" ELSE "threw_before_send"]

\* runMeshBroadcast up to `await postMeshMessage(sdk, config, intentMsg)`
ToolBroadcast(t) ==
    /\ AtRest
    /\ intents["i1"].status = "none"
    /\ \E deadline \in Deadlines :
         \E r \in {runMeshBroadcast(withSetup(Cur), deadline)} :
            ToolCommit(r, t, ToolTask("mesh_broadcast", r))

\* runMeshOffer up to `await postMeshMessage(sdk, config, offerMsg)`
ToolOffer(t) ==
    /\ AtRest
    /\ \E fee \in {1000}, skillOk \in BOOLEAN :
         \E r \in {runMeshOffer(withSetup(Cur), "mesh_offer", fee, FALSE, skillOk)} :
            ToolCommit(r, t, ToolTask("mesh_offer", r))

\* runMeshSettle up to `await postMeshMessage(sdk, config, settleMsg)`: the
\* payment is verified and the outcome recorded, the Store is not written yet
ToolSettle(t) ==
    /\ AtRest
    /\ \E txHash \in {"t1"}, host \in HostVerifiers :
         \E r \in {runMeshSettle(withSetup(Cur), txHash, 9, host)} :
            ToolCommit([withSetup(Cur) EXCEPT !.rep = r.rep], t,
                       [ToolTask("mesh_settle", r) EXCEPT
                          !.txHash = txHash,
                          !.reputation = GetOr(r.rep.scores, Self, 0)])

\* postMeshMessage resolves
ToolPost(t) ==
    /\ tasks[t].pc = "tool_post"
    /\ Step(t, [tasks[t] EXCEPT !.posted = TRUE,
                                !.pc = IF tasks[t].kind = "mesh_settle"
                                       THEN "settle_write" ELSE "done"])
    /\ UNCHANGED <<backend, intents, offers, deals, peers, processedMessages, pgLock>>
    /\ UNCHANGED raceFrame

\* postMeshMessage rejects and the tool throws
ToolPostThrows(t) ==
    /\ tasks[t].pc = "tool_post"
    /\ Step(t, [tasks[t] EXCEPT !.pc = "done", !.res = "threw"])
    /\ UNCHANGED <<backend, intents, offers, deals, peers, processedMessages, pgLock>>
    /\ UNCHANGED raceFrame

\* runMeshSettle after its send: settleDeal, updateIntentStatus(.., 'settled')
\* and upsertPeer with repUpdate.reputation
ToolSettleWrite(t) ==
    /\ tasks[t].pc = "settle_write"
    /\ deals' = settleDeal(deals, "i1", Self,
                           IF deals["i1"].fee.def THEN deals["i1"].fee ELSE Num(0),
                           tasks[t].txHash, "success")
    /\ intents' = updateIntentStatus(intents, "i1", "settled")
    /\ peers' = upsertPeer(peers, Self, tasks[t].reputation, Undef, Undef)
    /\ Step(t, [tasks[t] EXCEPT !.pc = "done"])
    /\ UNCHANGED <<backend, offers, processedMessages, pgLock>>
    /\ UNCHANGED raceFrame

\* the operation's promise has settled
ToolReturn(t) ==
    /\ tasks[t].pc = "done"
    /\ Step(t, NoTask)
    /\ UNCHANGED <<backend, intents, offers, deals, peers, processedMessages, pgLock>>
    /\ UNCHANGED raceFrame

\* the started agent; the Store holds no intent or the pending intent of
\* another agent
InitTools ==
    /\ RaceIdle /\ LifeIdle /\ VerifyIdle /\ CallsIdle
    /\ now = 1
    /\ lastExpirySweepAt = Num(1)
    /\ lastThrown = ""
    /\ ticked = FALSE
    /\ lastBeacon = ""
    /\ waitForDeadline = TRUE
    /\ firstAccepted = [id \in IntentIds |-> NoAcceptance]
    /\ backend = "memory"
    /\ intents \in {[id \in IntentIds |-> NoIntent],
                    saveIntent([id \in IntentIds |-> NoIntent], "i1", "EQY", 3, "pending")}
    /\ offers = <<>>
    /\ deals = [id \in IntentIds |-> NoDeal]
    /\ peers = upsertPeer([a \in Addrs |-> NoPeer], Self, 100, Num(StakeOne), Num(0))
    /\ processedMessages = {}
    /\ rcfg = [mode |-> "testnet", strictChain |-> "unset",
               allowLocalReputationFallback |-> "unset", hostAdapter |-> FALSE]
    /\ scores = StartedRep.scores /\ stakes = StartedRep.stakes
    /\ stakeSince = StartedRep.stakeSince /\ txSeen = StartedRep.txSeen
    /\ repLast = NoRepCall

\* an offer arrives (handleOffer), a scheduler tick fires, between the tools
ToolOfferArrives(t) == AtRest /\ RaceOfferStart(t)
ToolTick(t) == AtRest /\ RaceTickStart(t)

NextTools ==
    \/ Tick
    \/ \E t \in TaskIds : ToolBroadcast(t)
    \/ \E t \in TaskIds : ToolOffer(t)
    \/ \E t \in TaskIds : ToolSettle(t)
    \/ \E t \in TaskIds : ToolPost(t)
    \/ \E t \in TaskIds : ToolPostThrows(t)
    \/ \E t \in TaskIds : ToolSettleWrite(t)
    \/ \E t \in TaskIds : ToolReturn(t)
    \/ \E t \in TaskIds : ToolOfferArrives(t)
    \/ \E t \in TaskIds : ToolTick(t)
    \/ \E t \in TaskIds : SelGetIntent(t)
    \/ \E t \in TaskIds : SelRank(t)
    \/ \E t \in TaskIds : AcceptMemRead(t)
    \/ \E t \in TaskIds : AcceptMemWrite(t)
    \/ \E t \in TaskIds : SelAfterAccept(t)
    \/ \E t \in TaskIds : SelPost(t)
    \/ \E t \in TaskIds : SelPostThrows(t)
    \/ \E t \in TaskIds : SelDeal(t)
    \/ \E t \in TaskIds : TickLatest(t)
    \/ \E t \in TaskIds : TickExpire(t)

SpecTools == InitTools /\ [][NextTools]_vars

\* the send of task t ends in this step, resolved or rejected
SendEnds(t) ==
    /\ tasks[t].pc \in {"tool_post", "sel_post"}
    /\ tasks'[t].pc # tasks[t].pc

\* the Store holds what the message of task t tells: the intent, the offer of
\* this agent, the acceptance, the settled deal and intent
Persisted(t) ==
    IF tasks[t].kind = "mesh_broadcast" THEN intents["i1"].status # "none"
    ELSE IF tasks[t].kind = "mesh_offer"
    THEN \E i \in 1..Len(offers) : offers[i].intentId = "i1" /\ offers[i].fromAddress = Self
    ELSE IF tasks[t].kind = "mesh_settle"
    THEN /\ deals["i1"].exists /\ deals["i1"].txHash = tasks[t].txHash
         /\ intents["i1"].status = "settled"
    ELSE intents["i1"].acceptedOfferId = tasks[t].offerId

\* C26: in every tool and in selection the Store write precedes the send: when
\* a message is sent, or its send fails, what it tells is already stored
C26_WriteBeforeSend ==
    [][ \A t \in TaskIds : SendEnds(t) => Persisted(t) ]_vars

\* C26 with mesh_settle left out: the intent, the offer and the acceptance are
\* stored before their messages are sent
C26_WriteBeforeSendButSettle ==
    [][ \A t \in TaskIds : (SendEnds(t) /\ tasks[t].kind # "mesh_settle") => Persisted(t) ]_vars

\* C27: during ingest a precondition failure is dropped without aborting the
\* event: the auto-offer of an inbound intent, whatever its budget (also "0"
\* or below the agent's minFee), never makes onMessage throw while the Store,
\* Reputation and Transport calls succeed
C27_IngestNeverThrows ==
    (quote.path = "auto" /\ quote.pc = "done") => quote.outcome # "threw"

\* C27, what holds: the auto-offer throws only on a suggested fee of 0, and a
\* suggested fee above the budget is dropped as budget_too_low
C27_ThrowsOnZeroFeeOnly ==
    (quote.path = "auto" /\ quote.pc = "done")
        => /\ quote.outcome = "threw" <=> quote.fee = 0
           /\ quote.outcome = "budget_too_low" <=> quote.fee > quote.budget

(***************************************************************************)
(* index.js: onMessage on an event and on its redeliveries; the handler    *)
(* runs to its end or fails on its first Store call.  A task follows one   *)
(* event.                                                                  *)
(***************************************************************************)

\* the events delivered: a key and a MESH message that parses
Events == [key : MessageIds, msg : {m \in Messages : m.type # "garbage"}]

\* onMessage up to its switch: withSetup, parseMeshMessage, and
\* markProcessedMessage, after which `if (!dedupe.inserted) return {duplicate}`
deliver(st, t, rec, event) ==
    ToolCommit([st EXCEPT !.processed = @ \cup {event.key}], t,
               [rec EXCEPT !.kind = "event", !.key = event.key, !.msg = event.msg,
                           !.pc = IF event.key \in st.processed THEN "delivered"
                                  ELSE "handler",
                           !.res = IF event.key \in st.processed THEN "duplicate" ELSE ""])

\* the host delivers an event for the first time
IngestDeliver(t) ==
    /\ tasks[t].pc = "idle"
    /\ \E event \in Events : deliver(withSetup(Cur), t, NoTask, event)

\* the handler onMessage dispatched to runs to its end
IngestHandle(t) ==
    /\ tasks[t].pc = "handler"
    /\ \E r \in {dispatch(Cur, tasks[t].msg)} :
         ToolCommit(r, t, [tasks[t] EXCEPT !.pc = "delivered",
                                           !.res = IF r.call.outcome = "threw" THEN "threw"
                                                   ELSE "handled"])

\* the handler's first Store call rejects: onMessage throws, nothing is written
IngestHandleThrows(t) ==
    /\ tasks[t].pc = "handler"
    /\ Step(t, [tasks[t] EXCEPT !.pc = "delivered", !.res = "threw"])
    /\ UNCHANGED <<backend, intents, offers, deals, peers, processedMessages, pgLock>>
    /\ UNCHANGED raceFrame

\* the host delivers the same event again
IngestRedeliver(t) ==
    /\ tasks[t].pc = "delivered"
    /\ deliver(withSetup(Cur), t, tasks[t], [key |-> tasks[t].key, msg |-> tasks[t].msg])

NextIngest ==
    \/ Tick
    \/ \E t \in TaskIds : IngestDeliver(t)
    \/ \E t \in TaskIds : IngestHandle(t)
    \/ \E t \in TaskIds : IngestHandleThrows(t)
    \/ \E t \in TaskIds : IngestRedeliver(t)

SpecIngest == InitTools /\ [][NextIngest]_vars

\* the event task t follows is delivered again in this step
Redelivered(t) ==
    /\ tasks[t].pc = "delivered"
    /\ tasks'[t].key = tasks[t].key
    /\ processedMessages' = processedMessages \cup {tasks[t].key}
    /\ tasks'[t].pc \in {"handler", "delivered"}
    /\ tasks'[t].res \in {"", "duplicate"}

\* C28: inbound processing is at-least-once: when the handler of an event
\* failed after the event was marked processed, a redelivery of that event is
\* dispatched to the handler again and not dropped as a duplicate
C28_RedeliveryIsDispatched ==
    [][ \A t \in TaskIds :
          (tasks[t].res = "threw" /\ Redelivered(t)) => tasks'[t].pc = "handler" ]_vars

\* C28, what the code does: an event whose key is marked is never dispatched
\* again, whether its handler ran to its end or failed
C28_AtMostOnce ==
    [][ \A t \in TaskIds :
          (tasks'[t].pc = "handler" /\ tasks[t].pc # "handler")
              => tasks'[t].key \notin processedMessages ]_vars

\* the k-th intent listed has been selected or expired
Processed(k) == sched.listed[k].status # "pending"

\* C29: an error raised while a tick processes one intent never stops the
\* scheduler, and every other pending intent whose deadline has passed is
\* still selected or expired on that or a later tick, also when the failing
\* intent fails on every tick
C29_OthersStillProcessed ==
    <>(\A k \in 1..Len(sched.listed) : ~sched.listed[k].raises => Processed(k))

\* C29, what the scheduler does reach: the timer stays armed after a tick
\* that failed, and the intents listed before the first failing one are
\* selected or expired
C29_ProcessedUpToTheFailing ==
    /\ [](sched.pc = "armed")
    /\ <>(\A k \in 1..Len(sched.listed) :
             (\A j \in 1..k : ~sched.listed[j].raises) => Processed(k))

\* the inbound settle messages
SettleMessages == {m \in Messages : m.type = "settle"}

\* this step is onMessage handling the settle message msg of event messageId
\* to its end
SettleHandled(messageId, msg) ==
    /\ processedMessages' # processedMessages
    /\ onMessage(withSetup(Cur), messageId, msg).call.outcome = "settled"
    /\ Commit(onMessage(withSetup(Cur), messageId, msg))

\* the deal carries the settler and the txHash, the intent (when stored) is settled
SettleWritten(msg) ==
    /\ deals'["i1"].exists
    /\ deals'["i1"].executorAddress = msg.from
    /\ deals'["i1"].txHash = msg.txHash
    /\ deals'["i1"].outcome = "success"
    /\ intents["i1"].status # "none" => intents'["i1"].status = "settled"

\* C30: handling an inbound settle message records the deal outcome, invokes
\* reputation.recordOutcome for the settler with the message's txHash and
\* rating (the txHash is consumed, the settler's score moves), and
\* transitions the intent to settled
C30_SettleRecordsOutcome ==
    [][ \A messageId \in MessageIds, msg \in SettleMessages :
          SettleHandled(messageId, msg)
              => /\ SettleWritten(msg)
                 /\ msg.txHash \in txSeen'
                 /\ \E rating \in RepRatings :
                       scores' = recordOutcome(rcfg, [RepState EXCEPT !.txSeen = {}],
                                               msg.from, msg.txHash, rating).st.scores ]_vars

\* C30, what the handler does: deal and intent are written, the reputation
\* state is left alone and the settler's reputation is only read into peers
C30_SettleWritesDealAndIntent ==
    [][ \A messageId \in MessageIds, msg \in SettleMessages :
          SettleHandled(messageId, msg)
              => /\ SettleWritten(msg)
                 /\ UNCHANGED <<scores, stakes, stakeSince, txSeen>>
                 /\ peers'[msg.from].def
                 /\ peers'[msg.from].val = liveReputation(msg.from).value ]_vars

\* the intent is saved in this step (saveIntent sets createdAt to now())
IntentSaved ==
    /\ intents'["i1"] # intents["i1"]
    /\ intents'["i1"].status = "pending"

\* C31: every intent held in the Store, created by the broadcast tool or
\* saved from an inbound intent message, has deadline > createdAt (and a
\* deadline within the horizon of maxIntentDeadlineSeconds)
C31_DeadlineAfterCreation ==
    [][ IntentSaved => intents'["i1"].deadline > now ]_vars

\* C31 for the broadcast tool alone: the intent it saves has its deadline
\* after the second it is created in
C31_BroadcastDeadlineAfterCreation ==
    [][ \A deadline \in Deadlines :
          (IntentSaved /\ intents["i1"].status = "none"
             /\ Commit(runMeshBroadcast(withSetup(Cur), deadline)))
              => intents'["i1"].deadline > now ]_vars

(***************************************************************************)
(* index.js: the tools called with arguments of every shape; the Transport *)
(* and the Store do not fail                                               *)
(***************************************************************************)

\* maxIntentDeadlineSeconds, its default
MaxIntentDeadlineSeconds == 3600

\* args of mesh_broadcast: budget (Undef: not a finite number), deadline,
\* a payload above maxPayloadBytes, skill given, minReputation
BroadcastArgs ==
    [budget : {Undef, Num(0 - 1000), Num(0), Num(2000)}, deadline : {1, 3, 4000},
     oversize : BOOLEAN, skill : BOOLEAN, minReputation : {0 - 1, 0}]

\* args of mesh_offer: the fee (Undef: not a finite number)
OfferArgs == [fee : {Undef, Num(0), Num(1000)}]

\* args of mesh_settle: the rating, outcome given, and what the host verifier does
SettleArgs == [rating : {0, 9, 11}, outcome : BOOLEAN, host : HostVerifiers]

\* runMeshBroadcast(args): parseBudget, `budget <= 0`, validateIntentPayloadSize,
\* the two deadline tests, buildIntentMessage (null without a skill or with a
\* negative minReputation), saveIntent, postMeshMessage (serializeMeshMessage
\* throws on null)
runMeshBroadcastArgs(st, args) ==
    IF ~args.budget.def \/ args.budget.val < 0 THEN Ret(st, "mesh_broadcast", "threw", "")
    ELSE IF args.budget.val <= 0 THEN Ret(st, "mesh_broadcast", "threw", "")
    ELSE IF args.oversize THEN Ret(st, "mesh_broadcast", "threw", "")
    ELSE IF args.deadline <= now THEN Ret(st, "mesh_broadcast", "threw", "")
    ELSE IF args.deadline - now > MaxIntentDeadlineSeconds
    THEN Ret(st, "mesh_broadcast", "threw", "")
    ELSE IF ~args.skill \/ args.minReputation < 0
    THEN Ret([st EXCEPT !.intents = saveIntent(@, "i1", Self, args.deadline, "pending")],
             "mesh_broadcast", "threw", "")
    ELSE Ret([st EXCEPT !.intents = saveIntent(@, "i1", Self, args.deadline, "pending")],
             "mesh_broadcast", "ok", "intent")

\* runMeshOffer(args) by an agent that has the skill: toNum(args.fee)
runMeshOfferArgs(st, args) ==
    runMeshOffer(st, "mesh_offer", IF args.fee.def THEN args.fee.val ELSE 0, FALSE, TRUE)

\* runMeshSettle(args): getIntent, validateRating, verifyPayment,
\* buildSettleMessage (null without an outcome), recordOutcome, postMeshMessage
\* (serializeMeshMessage throws on null), settleDeal, updateIntentStatus, upsertPeer
runMeshSettleArgs(st, args) ==
    IF st.intents["i1"].status = "none" THEN Ret(st, "mesh_settle", "threw", "")
    ELSE IF args.rating \notin 1..10 THEN Ret(st, "mesh_settle", "threw", "")
    ELSE LET r == runMeshSettle(st, "t1", args.rating, args.host)
         IN IF r.call.outcome # "ok" THEN Ret(st, "mesh_settle", "threw", "")
            ELSE IF ~args.outcome
            THEN Ret([st EXCEPT !.rep = r.rep], "mesh_settle", "threw", "")
            ELSE r

\* the tool's handler (withSetup, then the tool) has run to its end on task t
Called(t, r) ==
    ToolCommit(r, t, [NoTask EXCEPT !.kind = r.call.op, !.pc = "done",
                                    !.res = r.call.outcome])

ArgsBroadcast(t) ==
    /\ intents["i1"].status = "none"
    /\ \E args \in BroadcastArgs : Called(t, runMeshBroadcastArgs(withSetup(Cur), args))

ArgsOffer(t) == \E args \in OfferArgs : Called(t, runMeshOfferArgs(withSetup(Cur), args))

ArgsSettle(t) == \E args \in SettleArgs : Called(t, runMeshSettleArgs(withSetup(Cur), args))

NextArgs ==
    \/ Tick
    \/ \E t \in TaskIds : ArgsBroadcast(t)
    \/ \E t \in TaskIds : ArgsOffer(t)
    \/ \E t \in TaskIds : ArgsSettle(t)

SpecArgs == InitTools /\ [][NextArgs]_vars

\* the arguments the tools are to refuse
MalformedBroadcast(args) ==
    \/ ~args.budget.def \/ args.budget.val <= 0
    \/ args.deadline <= now \/ args.deadline - now > MaxIntentDeadlineSeconds
    \/ args.oversize \/ ~args.skill \/ args.minReputation < 0

MalformedOffer(args) == ~args.fee.def \/ args.fee.val <= 0

MalformedSettle(args) == args.rating \notin 1..10 \/ ~args.outcome

\* the same without the arguments the tools do not test themselves
TestedBroadcast(args) ==
    \/ ~args.budget.def \/ args.budget.val <= 0
    \/ args.deadline <= now \/ args.deadline - now > MaxIntentDeadlineSeconds
    \/ args.oversize

\* the call threw and left the Store and the reputation as they were
RefusedUnchanged(t) ==
    /\ tasks'[t].res = "threw"
    /\ UNCHANGED <<intents, offers, deals, peers, scores, stakes, stakeSince, txSeen>>

\* the call threw and nothing but the expiry sweep of withSetup was written
RefusedSweptOnly(t) ==
    /\ tasks'[t].res = "threw"
    /\ intents' = withSetup(Cur).intents
    /\ UNCHANGED <<offers, deals, peers, scores, stakes, stakeSince, txSeen>>

\* C32: a tool call with malformed arguments throws and changes no state: no
\* intent, offer, deal or peer record is written, no reputation is updated
C32_MalformedArgsNoChange ==
    [][ \A t \in TaskIds :
          /\ \A args \in BroadcastArgs :
                (tasks'[t].kind = "mesh_broadcast"
                   /\ MalformedBroadcast(args)
                   /\ intents["i1"].status = "none"
                   /\ Called(t, runMeshBroadcastArgs(withSetup(Cur), args)))
                    => RefusedUnchanged(t)
          /\ \A args \in OfferArgs :
                (tasks'[t].kind = "mesh_offer"
                   /\ MalformedOffer(args)
                   /\ Called(t, runMeshOfferArgs(withSetup(Cur), args)))
                    => RefusedUnchanged(t)
          /\ \A args \in SettleArgs :
                (tasks'[t].kind = "mesh_settle"
                   /\ MalformedSettle(args)
                   /\ Called(t, runMeshSettleArgs(withSetup(Cur), args)))
                    => RefusedUnchanged(t) ]_vars

\* C32 for the arguments the tools test themselves (budget, deadline, payload
\* size, fee, rating): the call throws and writes nothing after the expiry
\* sweep of withSetup
C32_TestedArgsNoChange ==
    [][ \A t \in TaskIds :
          /\ \A args \in BroadcastArgs :
                (tasks'[t].kind = "mesh_broadcast"
                   /\ TestedBroadcast(args)
                   /\ intents["i1"].status = "none"
                   /\ Called(t, runMeshBroadcastArgs(withSetup(Cur), args)))
                    => RefusedSweptOnly(t)
          /\ \A args \in OfferArgs :
                (tasks'[t].kind = "mesh_offer"
                   /\ MalformedOffer(args)
                   /\ Called(t, runMeshOfferArgs(withSetup(Cur), args)))
                    => RefusedSweptOnly(t)
          /\ \A args \in SettleArgs :
                (tasks'[t].kind = "mesh_settle"
                   /\ args.rating \notin 1..10
                   /\ Called(t, runMeshSettleArgs(withSetup(Cur), args)))
                    => RefusedSweptOnly(t) ]_vars

\* the intent becomes settled in this step
SettledNow == intents'["i1"].status = "settled" /\ intents["i1"].status # "settled"

\* C33: an intent becomes settled, through mesh_settle or an inbound settle
\* message, only if it was accepted and the settling address (the executor
\* the deal is written with) is the intent's selectedExecutor
C33_SettledOnlyByExecutor ==
    [][ SettledNow
          => /\ intents["i1"].status = "accepted"
             /\ deals'["i1"].executorAddress = intents["i1"].selectedExecutor ]_vars

\* C33, what the two paths do ensure: the intent settled is a stored one, and
\* its deal is written with the settling address and the outcome
C33_SettledOnlyStored ==
    [][ SettledNow
          => /\ intents["i1"].status # "none"
             /\ deals'["i1"].exists
             /\ deals'["i1"].executorAddress \in {Self, "EQY"}
             /\ deals'["i1"].outcome = "success" ]_vars

\* the inbound intent messages
IntentMessages == {m \in Messages : m.type = "intent"}

\* this step is onMessage handling the intent message msg of event messageId,
\* the intent being stored already
IntentReingested(messageId, msg) ==
    /\ processedMessages' # processedMessages
    /\ intents["i1"].status # "none"
    /\ Commit(onMessage(withSetup(Cur), messageId, msg))

\* C34: ingesting an intent message whose id is stored already changes
\* neither status nor fromAddress nor deadline of the stored intent (beyond
\* the expiry sweep of withSetup); an accepted, expired or settled intent
\* never returns to pending
C34_ReingestKeepsIntent ==
    [][ \A messageId \in MessageIds, msg \in IntentMessages :
          IntentReingested(messageId, msg)
              => /\ intents'["i1"].status = withSetup(Cur).intents["i1"].status
                 /\ intents'["i1"].fromAddress = intents["i1"].fromAddress
                 /\ intents'["i1"].deadline = intents["i1"].deadline ]_vars

\* C34, what saveIntent keeps of the stored intent: acceptedOfferId and
\* selectedExecutor; status, fromAddress and deadline are the message's
C34_ReingestKeepsSelection ==
    [][ \A messageId \in MessageIds, msg \in IntentMessages :
          IntentReingested(messageId, msg)
              => /\ intents'["i1"].acceptedOfferId = intents["i1"].acceptedOfferId
                 /\ intents'["i1"].selectedExecutor = intents["i1"].selectedExecutor
                 /\ intents'["i1"].status = "pending"
                 /\ intents'["i1"].fromAddress = msg.from
                 /\ intents'["i1"].deadline = msg.deadline ]_vars

\* the intent the offers of the ranking are for, as broadcast: its budget (in
\* the unit of RankFees) and its minReputation
RankIntent == [id |-> "i1", budget |-> 75, minReputation |-> 50]

\* the offer the last selection picked
WinningOffer ==
    ranking.pool[CHOOSE i \in 1..Len(ranking.pool) :
                    ranking.pool[i].fromAddress = ranking.last.winner]

\* C35: the offer that selection accepts always has fee <= the intent's
\* budget, whatever offers were recorded from inbound offer messages
C35_WinnerWithinBudget ==
    ranking.last.n > 0 => WinningOffer.fee <= RankIntent.budget

\* C35 and C36, what selection does ensure: the offer picked is one of the
\* offers listed, and an only offer is picked whatever it says
C35_WinnerIsListed ==
    ranking.last.n > 0
        => /\ \E i \in 1..Len(ranking.pool) : ranking.pool[i].fromAddress = ranking.last.winner
           /\ ranking.last.n = 1 => ranking.last.winner = ranking.pool[1].fromAddress

\* C36: the offer that selection accepts always comes from a bidder whose
\* live reputation at selection time is at least the intent's minReputation
C36_WinnerHasMinReputation ==
    ranking.last.n > 0 => ranking.live[ranking.last.winner] >= RankIntent.minReputation

\* C36, what the ranking does with reputation: among two offers that differ
\* in nothing but the live reputation of their bidders, the lower one is not
\* picked
C36_HigherReputationPreferred ==
    (ranking.last.n = 2 /\ ranking.pool[1].fee = ranking.pool[2].fee
       /\ ranking.pool[1].etaSeconds = ranking.pool[2].etaSeconds
       /\ ranking.pool[1].stakeAgeSeconds = ranking.pool[2].stakeAgeSeconds)
        => \A i \in 1..2 : ranking.live[ranking.last.winner]
                               >= ranking.live[ranking.pool[i].fromAddress]

\* a mesh_settle call of task t has thrown because its send failed
SettleSendFailed(t) ==
    tasks[t].kind = "mesh_settle" /\ tasks[t].pc = "done" /\ tasks[t].res = "threw"

\* C37: mesh_settle is all-or-nothing with respect to reputation: when the
\* call throws, the executor's score and the set of seen txHashes are as
\* before the call (the txHash of a call that got to its send was not among
\* the seen ones before it), so that the same settle can be retried
C37_SettleThrowKeepsSeen ==
    \A t \in TaskIds : SettleSendFailed(t) => tasks[t].txHash \notin txSeen

\* C37, the part that holds: a mesh_settle that throws before its send
\* (unknown intent, payment refused, replayed txHash) leaves the scores and
\* the seen txHashes alone
C37_SettleRefusedKeepsReputation ==
    [][ \A t \in TaskIds :
          (tasks[t].pc = "idle" /\ tasks'[t].kind = "mesh_settle"
             /\ tasks'[t].res = "threw_before_send")
              => scores' = scores /\ txSeen' = txSeen ]_vars

\* C38: backend selection is stable for the lifetime of an sdk object: with a
\* databaseUrl configured every Store operation of the started agent uses
\* Postgres, also after stop() followed by start(); the Store never
\* switches to the in-memory maps
C38_StartedAgentUsesPostgres ==
    (backend = "postgres" /\ schedulerOn)
        => getPgPool = "open" /\ processedMessages = {}

\* C38, what holds: with a databaseUrl configured the in-memory maps are
\* written only once closeRegistry has set the pool to null
C38_MemoryOnlyAfterClose ==
    [][ processedMessages' # processedMessages
          => backend = "memory" \/ (backend = "postgres" /\ pgPool = "null") ]_vars

\* the maps after one call for address a that is not a recordOutcome with
\* rating >= 5: registerAgent, withdrawStake, slash, or recordOutcome with a
\* rating below 5
AfterUnrewarded(st, a) ==
    {registerAgent(rcfg, raw, st, a, StakeOne).st : raw \in RawClients}
        \cup {withdrawStake(rcfg, st, a).st, slash(rcfg, st, a).st}
        \cup {recordOutcome(rcfg, st, a, t, r).st : t \in RepTxHashes, r \in {2, 4}}

\* C39: in the local fallback a score increases only through recordOutcome
\* with rating >= 5: no sequence of registerAgent, withdrawStake, slash and
\* low-rated recordOutcome calls (here: any two of them, withdrawStake then
\* registerAgent among them) leaves an address with a score higher than the
\* one it had
C39_UnrewardedNeverRaises ==
    \A a \in RepCallers :
        scores[a].def
            => \A s1 \in AfterUnrewarded(RepState, a) :
                 \A s2 \in AfterUnrewarded(s1, a) :
                    GetOr(s2.scores, a, 0) <= scores[a].val

\* C39, what holds: while an address keeps its entry in the score map, the
\* entry rises only in a recordOutcome with rating >= 5
C39_EntryRaisedByGoodRatingOnly ==
    [][ \A a \in RepAddrs :
          (scores[a].def /\ scores'[a].def /\ scores'[a].val > scores[a].val)
              => /\ repLast'.op = "recordOutcome"
                 /\ \E t \in RepTxHashes, r \in {6, 8, 9} :
                       scores' = recordOutcome(rcfg, RepState, a, t, r).st.scores ]_vars

\* the step is verifyPayment({txHash}) with sdk.ton.verifyPayment behaving as host
RepVerified(txHash, host) ==
    /\ repLast' = [op |-> "verifyPayment",
                   ok |-> verifyPayment(rcfg, txHash, host).ok,
                   via |-> verifyPayment(rcfg, txHash, host).via]
    /\ UNCHANGED <<rcfg, scores, stakes, stakeSince, txSeen>>

\* C40: with a host payment verifier installed, verifyPayment returns ok:true
\* only if the verifier returned a truthy ok; a verifier that throws or
\* returns ok:false never results in ok:true, strict mode or not
C40_HostRefusalNeverOk ==
    [][ \A host \in {"notok", "throws"} :
          RepVerified("t1", host) => ~verifyPayment(rcfg, "t1", host).ok ]_vars

\* C40, what holds: a verifier that returns ok:false is never overruled, one
\* that throws is not overruled in strict mode or with the local fallback
\* disallowed, and one that returns ok is answered ok
C40_HostRefusalWhenReturnedOrStrict ==
    [][ \A host \in {"ok", "notok", "throws"} :
          RepVerified("t1", host)
              => /\ host = "ok" => verifyPayment(rcfg, "t1", host).ok
                 /\ host = "notok" => ~verifyPayment(rcfg, "t1", host).ok
                 /\ (host = "throws" /\ (isStrictChainMode(rcfg) \/ ~allowLocalFallback(rcfg)))
                       => ~verifyPayment(rcfg, "t1", host).ok ]_vars

====
